---- MODULE Spec2Model ----
(***************************************************************************)
(* A model of the mass-renamer rule pipeline (src/src/renamer.rs and the   *)
(* rules under src/src/renamer/ and src/src/file/).                        *)
(*                                                                         *)
(* A Rust String is modelled as a sequence of characters, a character as   *)
(* a one-character TLA+ string.  Rust indexes Strings by BYTE, so every    *)
(* character carries its UTF-8 width (Width): "é" and "É" take two bytes.  *)
(* Option<T> is a sequence: <<>> is None and <<v>> is Some(v).             *)
(* A panic of the Rust code is the outcome field panicked = TRUE, a loop   *)
(* that never ends the outcome field hung = TRUE.                          *)
(***************************************************************************)
EXTENDS Integers, Sequences, FiniteSets, TLC

VARIABLES
    file,       \* the Renamer under work (struct Renamer)
    panicked,   \* TRUE once a call on `file` has panicked
    hung,       \* TRUE once a call on `file` has entered a loop it never leaves
    calls,      \* history: the rule kinds configured, in call order
    returned,   \* history: the paths returned by the preview calls
    trace,      \* history: the rule kinds processed by the latest preview
    opt,        \* the input under test: None, Some([kind, o]) of a rule, Some(path)
    applied,    \* how the input was run: "no", "process", "preview", "new", "try_from";
                \* the latest of revert and rename: "revert", "rename"
    fs,         \* the file system: the existing paths, each a "file" or a "dir"
    now,        \* the clock: the seconds SystemTime::now() reads
    models,     \* the Renamers handed to cmp
    ord,        \* None, or Some of the Orderings cmp returned
    selected,   \* Selected.selected: the Renamers of the batch
    results,    \* the results of the renames of the batch, in order, or the
                \* Result of Renamer::new / try_from
    pc          \* the batch: "idle", "select", "commit", "done", "aborted", "hung"

vars == <<file, panicked, hung, calls, returned, trace, opt, applied, fs, now, models, ord,
          selected, results, pc>>
renVars == <<file, panicked, hung, calls, returned, trace>>
cmpVars == <<models, ord>>
batchVars == <<selected, results, pc>>

-----------------------------------------------------------------------------
(* Characters and strings (Rust char / String / str)                       *)

None == <<>>
Some(v) == <<v>>
IsSome(o) == o /= <<>>
Unwrap(o) == o[1]

Lowers == <<"a","b","c","d","e","f","g","h","i","j","k","l","m",
            "n","o","p","q","r","s","t","u","v","w","x","y","z","é">>
Uppers == <<"A","B","C","D","E","F","G","H","I","J","K","L","M",
            "N","O","P","Q","R","S","T","U","V","W","X","Y","Z","É">>

\* The characters of the model in ascending code point (UTF-8 byte) order;
\* "grave" is the one character of code 96, the grave accent.
CodeOrder == <<" ","!","-",".","/","0","1","2","3","4","5","6","7","8","9",":",";",
               "@","A","B","C","D","E","F","G","H","I","J","K","L","M",
               "N","O","P","Q","R","S","T","U","V","W","X","Y","Z","_",
               "grave","a","b","c","d","e","f","g","h","i","j","k","l","m",
               "n","o","p","q","r","s","t","u","v","w","x","y","z","É","é">>

CodeOf(c) == CHOOSE i \in 1..Len(CodeOrder) : CodeOrder[i] = c

\* UTF-8 width of a character in bytes.
Width(c) == IF c \in {"É", "é"} THEN 2 ELSE 1

IsUpperChar(c) == \E i \in 1..Len(Uppers) : Uppers[i] = c
IsLowerChar(c) == \E i \in 1..Len(Lowers) : Lowers[i] = c
ToUpperChar(c) ==
    IF IsLowerChar(c) THEN Uppers[CHOOSE i \in 1..Len(Lowers) : Lowers[i] = c] ELSE c
ToLowerChar(c) ==
    IF IsUpperChar(c) THEN Lowers[CHOOSE i \in 1..Len(Uppers) : Uppers[i] = c] ELSE c

\* char::is_numeric, char::is_alphanumeric; to_ascii_uppercase and
\* to_ascii_lowercase change the ASCII letters only.
\* The digits of format!("{}"), "{:b}", "{:o}", "{:X}" and "{:x}".
Digits == <<"0","1","2","3","4","5","6","7","8","9","A","B","C","D","E","F">>

IsDigit(c) == c \in {"0","1","2","3","4","5","6","7","8","9"}
IsAlphanumeric(c) == IsUpperChar(c) \/ IsLowerChar(c) \/ IsDigit(c)
ToAsciiUpperChar(c) == IF Width(c) = 1 THEN ToUpperChar(c) ELSE c
ToAsciiLowerChar(c) == IF Width(c) = 1 THEN ToLowerChar(c) ELSE c

ToUpper(s) == [i \in 1..Len(s) |-> ToUpperChar(s[i])]
ToLower(s) == [i \in 1..Len(s) |-> ToLowerChar(s[i])]
Reverse(s) == [i \in 1..Len(s) |-> s[Len(s) + 1 - i]]

\* String::len: the length in bytes.
RECURSIVE ByteLen(_)
ByteLen(s) == IF s = <<>> THEN 0 ELSE Width(Head(s)) + ByteLen(Tail(s))

\* The byte offsets that are character boundaries of s (str::is_char_boundary).
Boundaries(s) == {ByteLen(SubSeq(s, 1, k)) : k \in 0..Len(s)}
IsCharBoundary(s, idx) == idx \in Boundaries(s)

\* The number of characters before byte offset idx (a character boundary).
CharsBefore(s, idx) == CHOOSE k \in 0..Len(s) : ByteLen(SubSeq(s, 1, k)) = idx

\* String::insert_str(idx, t): asserts that idx is a character boundary.
InsertStrPanics(s, idx) == ~IsCharBoundary(s, idx)
InsertStr(s, idx, t) ==
    LET k == CharsBefore(s, idx)
    IN  SubSeq(s, 1, k) \o t \o SubSeq(s, k + 1, Len(s))

\* s[from..] starts with t (character-wise).
StartsWithAt(s, from, t) ==
    /\ from + Len(t) - 1 <= Len(s)
    /\ \A j \in 1..Len(t) : s[from + j - 1] = t[j]

\* str::replace(from, to): every non-overlapping match, left to right.  An empty
\* pattern matches before every character and at the end.
RECURSIVE ReplaceFrom(_, _, _, _)
ReplaceFrom(s, i, from, to) ==
    IF i > Len(s) THEN (IF from = <<>> THEN to ELSE <<>>)
    ELSE IF from = <<>> THEN to \o <<s[i]>> \o ReplaceFrom(s, i + 1, from, to)
    ELSE IF StartsWithAt(s, i, from) THEN to \o ReplaceFrom(s, i + Len(from), from, to)
    ELSE <<s[i]>> \o ReplaceFrom(s, i + 1, from, to)
StrReplace(s, from, to) == ReplaceFrom(s, 1, from, to)

\* str::split(sep) on a single character: the pieces, empty ones included.
RECURSIVE SplitOn(_, _)
SplitOn(s, sep) ==
    IF \A i \in 1..Len(s) : s[i] /= sep THEN <<s>>
    ELSE LET k == CHOOSE i \in 1..Len(s) : s[i] = sep /\ \A j \in 1..(i - 1) : s[j] /= sep
         IN  <<SubSeq(s, 1, k - 1)>> \o SplitOn(SubSeq(s, k + 1, Len(s)), sep)

\* Ord for str: lexicographic on the bytes, which for UTF-8 is code point order.
RECURSIVE StrCmp(_, _)
StrCmp(a, b) ==
    IF a = <<>> /\ b = <<>> THEN "Equal"
    ELSE IF a = <<>> THEN "Less"
    ELSE IF b = <<>> THEN "Greater"
    ELSE IF CodeOf(Head(a)) < CodeOf(Head(b)) THEN "Less"
    ELSE IF CodeOf(Head(a)) > CodeOf(Head(b)) THEN "Greater"
    ELSE StrCmp(Tail(a), Tail(b))

-----------------------------------------------------------------------------
(* std::path on a Unix target, on the path as a string                     *)

\* The path without the trailing separators and trailing "." components that
\* Path::components ignores.
RECURSIVE TrimEnd(_)
TrimEnd(p) ==
    IF Len(p) > 1 /\ p[Len(p)] = "/" THEN TrimEnd(SubSeq(p, 1, Len(p) - 1))
    ELSE IF Len(p) > 1 /\ p[Len(p)] = "." /\ p[Len(p) - 1] = "/"
         THEN TrimEnd(SubSeq(p, 1, Len(p) - 1))
    ELSE p

\* Index of the last separator of p, 0 when there is none.
LastSep(p) ==
    IF \E i \in 1..Len(p) : p[i] = "/"
    THEN CHOOSE i \in 1..Len(p) : p[i] = "/" /\ \A j \in (i + 1)..Len(p) : p[j] /= "/"
    ELSE 0

\* Path::components: the root flag and the component names ("." only leading,
\* ".." kept as a component).
PathComponents(p) ==
    LET parts == SplitOn(p, "/")
        keep(i) == /\ parts[i] /= <<>>
                   /\ (parts[i] = <<".">> => (i = 1))
    IN  [root  |-> (p /= <<>> /\ p[1] = "/"),
         comps |-> SelectSeq([i \in 1..Len(parts) |-> <<i, parts[i]>>],
                             LAMBDA e : keep(e[1]))]

CompNames(p) == LET c == PathComponents(p).comps IN [i \in 1..Len(c) |-> c[i][2]]

\* PartialEq for Path: the components are compared.
PathEq(p, q) ==
    /\ PathComponents(p).root = PathComponents(q).root
    /\ CompNames(p) = CompNames(q)

\* Path::file_name: the last component when it is a normal one.
FileName(p) ==
    LET t == TrimEnd(p)
        last == SubSeq(t, LastSep(t) + 1, Len(t))
    IN  IF last \in {<<>>, <<".">>, <<".", ".">>} THEN None ELSE Some(last)

\* rsplit_file_at_dot: the name split at its last dot (before, after).
LastDot(n) ==
    IF \E i \in 1..Len(n) : n[i] = "."
    THEN CHOOSE i \in 1..Len(n) : n[i] = "." /\ \A j \in (i + 1)..Len(n) : n[j] /= "."
    ELSE 0
SplitAtDot(n) ==
    IF LastDot(n) <= 1 THEN [before |-> Some(n), after |-> None]
    ELSE [before |-> Some(SubSeq(n, 1, LastDot(n) - 1)),
          after  |-> Some(SubSeq(n, LastDot(n) + 1, Len(n)))]

\* Path::file_stem and Path::extension.
FileStem(p) == IF IsSome(FileName(p)) THEN SplitAtDot(Unwrap(FileName(p))).before ELSE None
PathExtension(p) == IF IsSome(FileName(p)) THEN SplitAtDot(Unwrap(FileName(p))).after ELSE None

\* Path::parent: None for the empty path and a path ending in the root.
PathParent(p) ==
    LET t == TrimEnd(p)
    IN  IF t = <<>> \/ t = <<"/">> THEN None
        ELSE IF LastSep(t) = 0 THEN Some(<<>>)
        ELSE IF LastSep(t) = 1 THEN Some(<<"/">>)
        ELSE Some(TrimEnd(SubSeq(t, 1, LastSep(t) - 1)))

\* PathBuf::push: an absolute path replaces the buffer.
PathPush(base, p) ==
    IF p /= <<>> /\ p[1] = "/" THEN p
    ELSE IF base = <<>> \/ base[Len(base)] = "/" THEN base \o p
    ELSE base \o <<"/">> \o p

\* Path::with_extension: nothing without a file name; otherwise the buffer is cut
\* at the end of the file stem and "." + extension is added when not empty.
WithExtension(p, e) ==
    IF ~IsSome(FileName(p)) THEN p
    ELSE LET t == TrimEnd(p)
             cut == SubSeq(t, 1, LastSep(t)) \o Unwrap(FileStem(p))
         IN  IF e = <<>> THEN cut ELSE cut \o <<".">> \o e

-----------------------------------------------------------------------------
(* The file system: the existing paths, each a "file" or a "dir"           *)

\* No file at all: the file system of the specifications that use none.
NoFiles == <<>>

Exists(fsys, path) == path \in DOMAIN fsys
\* Path::is_dir: false for a path that does not exist.
IsDir(fsys, path) == Exists(fsys, path) /\ fsys[path] = "dir"

\* The path as its components rebuilt: the name the file system knows it by.
RECURSIVE JoinNames(_)
JoinNames(names) ==
    IF names = <<>> THEN <<>>
    ELSE IF Len(names) = 1 THEN names[1]
    ELSE names[1] \o <<"/">> \o JoinNames(Tail(names))
NormPath(p) ==
    IF PathComponents(p).root THEN <<"/">> \o JoinNames(CompNames(p))
    ELSE JoinNames(CompNames(p))

-----------------------------------------------------------------------------
(* struct Renamer and Renamer::new / TryFrom<&Path>                        *)

\* The ten rule slots of a Renamer, in the order of the struct's fields.
Slots == {"add", "case", "date", "ext", "folder", "name", "number", "regex",
          "remove", "replace"}

\* Renamer { stem, valid_original, extension, original, ..Default::default() }
NewRenamer(path, isdir) ==
    [stem |-> Unwrap(FileStem(path)), renamed |-> <<>>, original |-> path,
     valid_original |-> TRUE, extension |-> PathExtension(path),
     add |-> None, case |-> None, date |-> None, ext |-> None, folder |-> None,
     name |-> None, number |-> None, regex |-> None, remove |-> None,
     replace |-> None, is_dir |-> isdir]

\* Renamer::new: Err(BadStem) when the path has no file stem.
\* Renamer::new with the whole file name as the stem.
RenamerNewNoDot(path) ==
    IF IsSome(FileStem(path))
    THEN [ok |-> TRUE, err |-> "",
          val |-> Some([NewRenamer(path, FALSE) EXCEPT !.stem = Unwrap(FileName(path)),
                                                      !.extension = None])]
    ELSE [ok |-> FALSE, err |-> "BadStem", val |-> None]

\* Renamer::new: Err(BadStem) when the path has no file stem.
RenamerNew(path) ==
    IF IsSome(FileStem(path)) THEN [ok |-> TRUE, err |-> "", val |-> Some(NewRenamer(path, FALSE))]
    ELSE [ok |-> FALSE, err |-> "BadStem", val |-> None]

\* Process::process returns with the file the rule left, panics, or never returns.
Done(f) == [panicked |-> FALSE, hung |-> FALSE, file |-> f]
Panic(f) == [panicked |-> TRUE, hung |-> FALSE, file |-> f]

-----------------------------------------------------------------------------
(* NameOptions (src/src/renamer/name.rs)                                   *)

NameKeep == [tag |-> "Keep", text |-> <<>>]
NameRemove == [tag |-> "Remove", text |-> <<>>]
NameFixed(x) == [tag |-> "Fixed", text |-> x]
NameReverse == [tag |-> "Reverse", text |-> <<>>]

NameProcessKeepsFixed(o, f) ==
    CASE o.tag = "Keep" -> Done(f)
      [] o.tag = "Remove" -> Done([f EXCEPT !.stem = <<>>])
      [] o.tag = "Fixed" -> Done([f EXCEPT !.stem = f.stem \o o.text])
      [] o.tag = "Reverse" -> Done([f EXCEPT !.stem = Reverse(f.stem)])

NameProcess(o, f) ==
    CASE o.tag = "Keep" -> Done(f)
      [] o.tag = "Remove" -> Done([f EXCEPT !.stem = <<>>])
      [] o.tag = "Fixed" -> Done([f EXCEPT !.stem = o.text])
      [] o.tag = "Reverse" -> Done([f EXCEPT !.stem = Reverse(f.stem)])

-----------------------------------------------------------------------------
(* RegexOptions (src/src/file/reg.rs)                                      *)

RegexOpt(exp, rep, extension) == [exp |-> exp, rep |-> rep, extension |-> extension]

\* Regex::new(exp).is_ok() for the patterns of the model: literal characters
\* and "." compile, a pattern with an unclosed "(" or "[" does not.
RegexCompiles(exp) ==
    /\ \A i \in 1..Len(exp) : exp[i] = "(" => \E j \in (i + 1)..Len(exp) : exp[j] = ")"
    /\ \A i \in 1..Len(exp) : exp[i] = "[" => \E j \in (i + 1)..Len(exp) : exp[j] = "]"

\* The pattern matches at character i of s: "." stands for any character.
RegexMatchAt(s, i, exp) ==
    /\ i + Len(exp) - 1 <= Len(s)
    /\ \A j \in 1..Len(exp) : exp[j] = "." \/ exp[j] = s[i + j - 1]

\* Regex::replace_all(s, rep) for a replacement without "$": every match, left
\* to right, not overlapping; the empty pattern matches at every position.
RECURSIVE RegexReplaceFrom(_, _, _, _)
RegexReplaceFrom(s, i, exp, rp) ==
    IF i > Len(s) THEN (IF exp = <<>> THEN rp ELSE <<>>)
    ELSE IF exp = <<>> THEN rp \o <<s[i]>> \o RegexReplaceFrom(s, i + 1, exp, rp)
    ELSE IF RegexMatchAt(s, i, exp) THEN rp \o RegexReplaceFrom(s, i + Len(exp), exp, rp)
    ELSE <<s[i]>> \o RegexReplaceFrom(s, i + 1, exp, rp)

\* The rule with a pattern that does not compile raised to the caller.
RegexProcessRaises(o, f) ==
    IF ~RegexCompiles(o.exp) THEN Panic(f)
    ELSE IF ~o.extension \/ ~IsSome(f.extension)
    THEN Done([f EXCEPT !.stem = RegexReplaceFrom(f.stem, 1, o.exp, o.rep)])
    ELSE LET res == RegexReplaceFrom(f.stem \o <<".">> \o Unwrap(f.extension), 1, o.exp, o.rep)
         IN  IF LastDot(res) = 0 THEN Done([f EXCEPT !.stem = res])
             ELSE Done([f EXCEPT !.stem = SubSeq(res, 1, LastDot(res) - 1),
                                 !.extension = Some(SubSeq(res, LastDot(res) + 1, Len(res)))])

RegexProcess(o, f) ==
    IF ~RegexCompiles(o.exp) THEN Done(f)
    ELSE IF ~o.extension \/ ~IsSome(f.extension)
    THEN Done([f EXCEPT !.stem = RegexReplaceFrom(f.stem, 1, o.exp, o.rep)])
    ELSE LET res == RegexReplaceFrom(f.stem \o <<".">> \o Unwrap(f.extension), 1, o.exp, o.rep)
         IN  IF LastDot(res) = 0 THEN Done([f EXCEPT !.stem = res])
             ELSE Done([f EXCEPT !.stem = SubSeq(res, 1, LastDot(res) - 1),
                                 !.extension = Some(SubSeq(res, LastDot(res) + 1, Len(res)))])

-----------------------------------------------------------------------------
(* ReplaceOptions (src/src/renamer/replace.rs)                             *)

ReplaceOpt(replace, with, case_sensative) ==
    [replace |-> replace, with |-> with, case_sensative |-> case_sensative]

\* str::find(pat): the number of characters before the first match (the empty
\* pattern matches at the start), None without a match.
Find(s, pat) ==
    IF \E i \in 1..(Len(s) + 1) : StartsWithAt(s, i, pat)
    THEN Some((CHOOSE i \in 1..(Len(s) + 1) :
                  /\ StartsWithAt(s, i, pat)
                  /\ \A j \in 1..(i - 1) : ~StartsWithAt(s, j, pat)) - 1)
    ELSE None

\* while let Some(start) = file.to_lowercase().find(&replace.to_lowercase()):
\* file.remove(start) once per BYTE of replace, each call removing one whole
\* character and panicking at the end of the string; then insert_str(start, with).
\* A run that has not ended after turns rounds never ends.
RECURSIVE ReplaceLoop(_, _, _)
ReplaceLoop(s, o, turns) ==
    LET start == Find(ToLower(s), ToLower(o.replace))
        span == ByteLen(o.replace)
    IN  IF ~IsSome(start) THEN [panicked |-> FALSE, hung |-> FALSE, stem |-> s]
        ELSE IF turns = 0 THEN [panicked |-> FALSE, hung |-> TRUE, stem |-> s]
        ELSE IF Unwrap(start) + span > Len(s)
        THEN [panicked |-> TRUE, hung |-> FALSE, stem |-> SubSeq(s, 1, Unwrap(start))]
        ELSE ReplaceLoop(SubSeq(s, 1, Unwrap(start)) \o o.with
                         \o SubSeq(s, Unwrap(start) + span + 1, Len(s)), o, turns - 1)

ReplaceProcess(o, f) ==
    IF o.case_sensative THEN Done([f EXCEPT !.stem = StrReplace(f.stem, o.replace, o.with)])
    ELSE LET out == ReplaceLoop(f.stem, o, 4 * (Len(f.stem) + 1))
         IN  [panicked |-> out.panicked, hung |-> out.hung,
              file |-> [f EXCEPT !.stem = out.stem]]

-----------------------------------------------------------------------------
(* CaseOptions (src/src/renamer/case.rs)                                   *)

\* trim_right of the Inflector crate: trailing non-alphanumeric characters go.
RECURSIVE TrimRight(_)
TrimRight(s) ==
    IF s /= <<>> /\ ~IsAlphanumeric(s[Len(s)]) THEN TrimRight(SubSeq(s, 1, Len(s) - 1))
    ELSE s

\* to_case_camel_like of the Inflector crate with injectable_char ' ' and
\* has_seperator: the loop over the characters from index i, with the loop's
\* variables new_word, first_word, last_char and found_real_char in st.
RECURSIVE CamelLikeFrom(_, _, _, _)
CamelLikeFrom(t, i, st, inverted) ==
    IF i > Len(t) THEN <<>>
    ELSE LET c == t[i]
         IN  IF ~IsAlphanumeric(c) /\ st.found
             THEN CamelLikeFrom(t, i + 1, [st EXCEPT !.new_word = TRUE], inverted)
             ELSE IF ~st.found /\ ~IsAlphanumeric(c)
             THEN CamelLikeFrom(t, i + 1, st, inverted)
             ELSE IF IsDigit(c)
             THEN <<c>> \o CamelLikeFrom(t, i + 1,
                                [st EXCEPT !.found = TRUE, !.new_word = TRUE], inverted)
             ELSE IF st.new_word \/ (IsLowerChar(st.last_char) /\ IsUpperChar(c)
                                      /\ st.last_char /= " ")
             THEN (IF st.first_word THEN <<>> ELSE <<" ">>)
                  \o (IF st.first_word \/ ~inverted THEN <<ToAsciiUpperChar(c)>>
                       ELSE <<ToAsciiLowerChar(c)>>)
                  \o CamelLikeFrom(t, i + 1,
                         [st EXCEPT !.found = TRUE, !.new_word = FALSE, !.first_word = FALSE],
                         inverted)
             ELSE <<ToAsciiLowerChar(c)>>
                  \o CamelLikeFrom(t, i + 1, [st EXCEPT !.found = TRUE, !.last_char = c],
                                   inverted)

\* str::to_title_case and str::to_sentence_case (Inflector).
ToTitleCase(s) ==
    CamelLikeFrom(TrimRight(s), 1,
                  [new_word |-> TRUE, first_word |-> TRUE, last_char |-> " ", found |-> FALSE],
                  FALSE)
ToSentenceCase(s) ==
    CamelLikeFrom(TrimRight(s), 1,
                  [new_word |-> TRUE, first_word |-> TRUE, last_char |-> " ", found |-> FALSE],
                  TRUE)

\* The case transform of the selected mode, applied to a whole string.
CaseApply(case, s) ==
    CASE case = "Keep" -> s
      [] case = "Lower" -> ToLower(s)
      [] case = "Upper" -> ToUpper(s)
      [] case = "Title" -> ToTitleCase(s)
      [] case = "Sentence" -> ToSentenceCase(s)

\* for exception in exceptions.split(';'): stem.replace(mod_exception, exception)
RECURSIVE CaseExceptions(_, _, _)
CaseExceptions(case, excs, s) ==
    IF excs = <<>> THEN s
    ELSE CaseExceptions(case, Tail(excs),
                        StrReplace(s, CaseApply(case, Head(excs)), Head(excs)))

CaseProcess(o, f) ==
    LET cased == CaseApply(o.case, f.stem)
        exc == IF o.exceptions /= <<>>
               THEN CaseExceptions(o.case, SplitOn(o.exceptions, ";"), cased)
               ELSE cased
        snaked == IF o.snake THEN StrReplace(exc, <<" ">>, <<"_">>) ELSE exc
    IN  Done([f EXCEPT !.stem = snaked])

-----------------------------------------------------------------------------
(* RemoveOptions (src/src/renamer/remove.rs)                               *)

\* RemoveOptions::default(): nothing is removed.
RemoveDefault ==
    [first_n |-> 0, last_n |-> 0, range |-> <<0, 0>>, characters |-> <<>>, words |-> <<>>,
     crop |-> [before |-> TRUE, text |-> <<>>], digits |-> FALSE, ascii_high |-> FALSE,
     trim |-> FALSE, double_space |-> FALSE, chars |-> FALSE, symbols |-> FALSE,
     lead_dots |-> FALSE]

\* What a step of the rule leaves: the stem, or a panic.
Kept(s) == [panicked |-> FALSE, stem |-> s]
Lost(s) == [panicked |-> TRUE, stem |-> s]
\* The text t put in front of what a step left, unless that step panicked.
Prepend(t, out) == IF out.panicked THEN out ELSE Kept(t \o out.stem)

\* &s[from..to] on byte offsets: a panic off a character boundary, past the end
\* or for from > to.
Slice(s, from, to) ==
    IF from <= to /\ IsCharBoundary(s, from) /\ IsCharBoundary(s, to)
    THEN Kept(SubSeq(s, CharsBefore(s, from) + 1, CharsBefore(s, to)))
    ELSE Lost(s)

\* if self.first_n + self.last_n > 0 { self.first_last(&mut file.stem) }
FirstLast(o, s) ==
    IF ~(o.first_n + o.last_n > 0) THEN Kept(s)
    ELSE IF o.first_n + o.last_n > ByteLen(s) THEN Kept(<<>>)
    ELSE Slice(s, o.first_n,
               IF ByteLen(s) - o.last_n < o.first_n THEN o.first_n ELSE ByteLen(s) - o.last_n)

\* file.remove(idx), times over: each call takes the whole character at byte
\* offset idx and panics off a boundary or at the end of the string.
RECURSIVE RemoveAt(_, _, _)
RemoveAt(s, idx, times) ==
    IF times <= 0 THEN Kept(s)
    ELSE IF idx >= ByteLen(s) \/ ~IsCharBoundary(s, idx) THEN Lost(s)
    ELSE RemoveAt(SubSeq(s, 1, CharsBefore(s, idx))
                  \o SubSeq(s, CharsBefore(s, idx) + 2, Len(s)), idx, times - 1)

\* The guard of process on the range, then RemoveOptions::start_end, on what
\* the step before left: for _ in (range.0 - 1)..min(file.len(), range.1)
StartEnd(o, out) ==
    IF ~out.panicked /\ 0 < o.range[1] /\ o.range[1] < ByteLen(out.stem) /\ o.range[2] > 0
    THEN RemoveAt(out.stem, o.range[1] - 1,
                  (IF ByteLen(out.stem) < o.range[2] THEN ByteLen(out.stem) ELSE o.range[2])
                  - (o.range[1] - 1))
    ELSE out

\* RemoveOptions::remove_char for every character of a list.
RemoveChars(s, list) == SelectSeq(s, LAMBDA c : \A i \in 1..Len(list) : list[i] /= c)

\* RemoveOptions::remove_word: the word, or with a wildcard the text from the
\* first match of the part before "*" to the first match of the part after it.
RemoveWord(s, word) ==
    IF \E i \in 1..Len(word) : word[i] = "*"
    THEN LET w == SplitOn(word, "*")
             start_idx == Find(s, w[1])
             end_idx == Find(s, w[2])
         IN  IF IsSome(start_idx) /\ IsSome(end_idx)
             THEN IF Unwrap(start_idx) <= Unwrap(end_idx) + Len(w[2])
                  THEN Kept(StrReplace(s, SubSeq(s, Unwrap(start_idx) + 1,
                                                 Unwrap(end_idx) + Len(w[2])), <<>>))
                  ELSE Lost(s)
             ELSE Kept(s)
    ELSE Kept(StrReplace(s, word, <<>>))

\* for word in words { self.remove_word(file, word) }: the words of
\* self.words.split(' '), none when self.words is empty.
RECURSIVE RemoveWords(_, _)
RemoveWords(out, words) ==
    IF out.panicked \/ words = <<>> THEN out
    ELSE RemoveWords(RemoveWord(out.stem, Head(words)), Tail(words))

\* The crop: the text before the first match goes, or the text after it.
Crop(o, s) ==
    LET pos == Find(s, o.crop.text)
    IN  IF o.crop.text = <<>> \/ ~IsSome(pos) THEN s
        ELSE IF o.crop.before THEN SubSeq(s, Unwrap(pos) + 1, Len(s))
        ELSE SubSeq(s, 1, Unwrap(pos) + Len(o.crop.text))

\* if self.trim { *file = file.trim().to_owned() }
RECURSIVE Trim(_, _)
Trim(o, s) ==
    IF ~o.trim THEN s
    ELSE IF s /= <<>> /\ Head(s) = " " THEN Trim(o, Tail(s))
    ELSE IF s /= <<>> /\ s[Len(s)] = " " THEN Trim(o, SubSeq(s, 1, Len(s) - 1))
    ELSE s

\* if self.double_space { self.remove_double_spaces(file) }
RECURSIVE RemoveDoubleSpaces(_, _)
RemoveDoubleSpaces(o, s) ==
    IF o.double_space /\ IsSome(Find(s, <<" ", " ">>))
    THEN RemoveDoubleSpaces(o, StrReplace(s, <<" ", " ">>, <<" ">>))
    ELSE s

\* The symbols of the symbols switch.
Symbols == <<"~","grave","!","@","#","$","%","^","&","*","(",")","_","-","+","=","{","}",
             "[","]","|","\\","/","?","\"","'",":",";",".",",","<",">">>

\* The steps of process after the word list, none of which panics.
RemoveDigitsHigh(o, s) ==
    SelectSeq(s, LAMBDA c : ~(o.digits /\ IsDigit(c)) /\ ~(o.ascii_high /\ Width(c) > 1))
RemoveLetters(o, s) ==
    IF o.chars
    THEN SelectSeq(s, LAMBDA c : ~(Width(c) = 1 /\ (IsUpperChar(c) \/ IsLowerChar(c))))
    ELSE s
RemoveLeadDots(o, s) == IF o.lead_dots /\ s /= <<>> /\ Head(s) = "." THEN Tail(s) ELSE s
\* The same steps with the trim moved behind the double spaces.
RemoveRestTrimLast(o, s) ==
    Trim(o, RemoveDoubleSpaces(o, RemoveLeadDots(o,
        RemoveChars(RemoveLetters(o, RemoveDigitsHigh(o, Crop(o, s))),
                    IF o.symbols THEN Symbols ELSE <<>>))))

RemoveRest(o, s) ==
    RemoveDoubleSpaces(o, RemoveLeadDots(o,
        RemoveChars(RemoveLetters(o, Trim(o, RemoveDigitsHigh(o, Crop(o, s)))),
                    IF o.symbols THEN Symbols ELSE <<>>)))

\* The steps of process that can panic, each on what the one before left.
RemoveCharacters(o, out) ==
    IF out.panicked THEN out ELSE Kept(RemoveChars(out.stem, o.characters))
RemoveLeaves(o, f, out) ==
    IF out.panicked THEN Panic([f EXCEPT !.stem = out.stem])
    ELSE Done([f EXCEPT !.stem = RemoveRest(o, out.stem)])

RemoveProcess(o, f) ==
    RemoveLeaves(o, f,
        RemoveWords(RemoveCharacters(o, StartEnd(o, FirstLast(o, f.stem))),
                    IF o.words = <<>> THEN <<>> ELSE SplitOn(o.words, " ")))

-----------------------------------------------------------------------------
(* AddOptions (src/src/renamer/add.rs)                                     *)

\* i32::MIN
I32Min == -2147483647 - 1

\* -p on an i32: i32::MIN has no positive counterpart.  A build with overflow
\* checks panics there; a build without wraps to i32::MIN.
NegOverflows(p) == p = I32Min
WrappingNeg(p) == IF p = I32Min THEN I32Min ELSE -p

\* The match on pos: the byte offset handed to insert_str (push_str is the
\* offset len), in the build without overflow checks.  A negative len + pos
\* stands for its cast to usize, a value beyond every string length.
AddInsertOffset(s, pos) ==
    LET len == ByteLen(s)
    IN  IF pos >= len THEN len
        ELSE IF pos >= 0 THEN pos
        ELSE IF WrappingNeg(pos) >= len THEN 0
        ELSE len + pos

\* if let Some((pos, insert)) = &self.insert { match pos { ... } }
\* Both builds panic for i32::MIN: at the negation, or in insert_str.
AddInsert(s, pos, text) ==
    IF pos < 0 /\ NegOverflows(pos) THEN [panicked |-> TRUE, stem |-> s]
    ELSE IF InsertStrPanics(s, AddInsertOffset(s, pos)) THEN [panicked |-> TRUE, stem |-> s]
    ELSE [panicked |-> FALSE, stem |-> InsertStr(s, AddInsertOffset(s, pos), text)]

\* if self.word_space { ... }: the first character, then every other character
\* with a space before it when it is uppercase.
RECURSIVE WordSpaceRest(_)
WordSpaceRest(s) ==
    IF s = <<>> THEN <<>>
    ELSE (IF IsUpperChar(Head(s)) THEN <<" ", Head(s)>> ELSE <<Head(s)>>)
         \o WordSpaceRest(Tail(s))
WordSpace(s) == IF s = <<>> THEN <<>> ELSE <<Head(s)>> \o WordSpaceRest(Tail(s))

AddProcess(o, f) ==
    LET s1 == IF IsSome(o.prefix) THEN Unwrap(o.prefix) \o f.stem ELSE f.stem
        ins == IF IsSome(o.insert)
               THEN AddInsert(s1, Unwrap(o.insert).pos, Unwrap(o.insert).text)
               ELSE [panicked |-> FALSE, stem |-> s1]
        s3 == IF IsSome(o.suffix) THEN ins.stem \o Unwrap(o.suffix) ELSE ins.stem
        s4 == IF o.word_space THEN WordSpace(s3) ELSE s3
    IN  IF ins.panicked THEN Panic([f EXCEPT !.stem = s1])
        ELSE Done([f EXCEPT !.stem = s4])

-----------------------------------------------------------------------------
(* DateOptions (src/src/renamer/date.rs)                                   *)

DateOpt(date_mode, date_type, fmt, custom_fmt, sep, seg, full_year) ==
    [date_mode |-> date_mode, date_type |-> date_type, fmt |-> fmt,
     custom_fmt |-> custom_fmt, sep |-> sep, seg |-> seg, full_year |-> full_year]
\* DateFormat::Std((prefix, suffix)), and DateFormat::Custom with no parts.
DateFormat(tag, prefix, suffix) == [tag |-> tag, prefix |-> prefix, suffix |-> suffix]

\* The times the file system and the clock report, by strftime specifier:
\* every file was created on 03.02.2001 04:05:06 and modified on 09.08.2007
\* 10:11:12; the clock reads 31.12.2026 23:59:5n.
Stamp(d, m, y, H, M, S) ==
    [d |-> d, m |-> m, y |-> SubSeq(y, 3, 4), Y |-> y, H |-> H, M |-> M, S |-> S]
DateOf(date_type) ==
    CASE date_type = "Created" -> Stamp(<<"0","3">>, <<"0","2">>, <<"2","0","0","1">>,
                                        <<"0","4">>, <<"0","5">>, <<"0","6">>)
      [] date_type = "Modified" -> Stamp(<<"0","9">>, <<"0","8">>, <<"2","0","0","7">>,
                                         <<"1","0">>, <<"1","1">>, <<"1","2">>)
      [] date_type = "Current" -> Stamp(<<"3","1">>, <<"1","2">>, <<"2","0","2","6">>,
                                        <<"2","3">>, <<"5","9">>, <<"5", Digits[now + 1]>>)

\* DateOptions::get_date: file.metadata()? fails for a missing file, whatever
\* the date type; metadata.created()? where no creation time is recorded, as
\* for the file d/a.b.
GetDate(o, path) ==
    IF ~Exists(fs, NormPath(path)) THEN None
    ELSE IF o.date_type = "Created" /\ NormPath(path) = <<"d","/","a",".","b">> THEN None
    ELSE Some(DateOf(o.date_type))

\* DatePrefix::get_format and DateSuffix::get_format
DatePrefixFormat(prefix, sep, full_year) ==
    LET y == IF full_year THEN <<"%","Y">> ELSE <<"%","y">>
    IN  CASE prefix = "Dmy" -> <<"%","d">> \o sep \o <<"%","m">> \o sep \o y
          [] prefix = "Mdy" -> <<"%","m">> \o sep \o <<"%","d">> \o sep \o y
          [] prefix = "Ymd" -> y \o sep \o <<"%","m">> \o sep \o <<"%","d">>
DateSuffixFormat(suffix, sep) ==
    CASE suffix = "Hm" -> <<"%","H">> \o sep \o <<"%","M">>
      [] suffix = "Hms" -> <<"%","H">> \o sep \o <<"%","M">> \o sep \o <<"%","S">>

\* format!("{}", datetime.format(fmt)) for the specifiers %d %m %y %Y %H %M %S
\* and %%: a "%" at the end or before a character that is no specifier makes
\* the formatting fail, and format! panic.
RECURSIVE Strftime(_, _, _)
Strftime(fmt, i, st) ==
    IF i > Len(fmt) THEN Kept(<<>>)
    ELSE IF fmt[i] /= "%"
    THEN Prepend(<<fmt[i]>>, Strftime(fmt, i + 1, st))
    ELSE IF i = Len(fmt) THEN Lost(<<>>)
    ELSE IF fmt[i + 1] = "%"
    THEN Prepend(<<"%">>, Strftime(fmt, i + 2, st))
    ELSE IF fmt[i + 1] \in DOMAIN st
    THEN Prepend(st[fmt[i + 1]], Strftime(fmt, i + 2, st))
    ELSE Lost(<<>>)

DateProcess(o, f) ==
    IF ~IsSome(GetDate(o, f.original)) \/ o.date_mode = "None" THEN Done(f)
    ELSE LET format == IF o.fmt.tag = "Custom" THEN o.custom_fmt
                       ELSE IF IsSome(o.fmt.suffix)
                       THEN DatePrefixFormat(o.fmt.prefix, o.seg, o.full_year) \o o.seg
                            \o DateSuffixFormat(Unwrap(o.fmt.suffix), o.seg)
                       ELSE DatePrefixFormat(o.fmt.prefix, o.seg, o.full_year)
             text == Strftime(format, 1, Unwrap(GetDate(o, f.original)))
         IN  IF text.panicked THEN Panic(f)
             ELSE IF o.date_mode = "Prefix"
             THEN Done([f EXCEPT !.stem = text.stem \o o.sep \o f.stem])
             ELSE Done([f EXCEPT !.stem = f.stem \o o.sep \o text.stem])

-----------------------------------------------------------------------------
(* FolderOptions (src/src/renamer/folder.rs), on a Unix target             *)

FolderOpt(mode, sep, levels) == [mode |-> mode, sep |-> sep, levels |-> levels]

\* file.original.components().rev() without the file itself, the Normal
\* components only: the names of the ancestor folders, nearest first.
FolderComponents(path) ==
    LET names == CompNames(path)
        above == Reverse(SubSeq(names, 1, Len(names) - 1))
    IN  SelectSeq(above, LAMBDA n : n \notin {<<".">>, <<".", ".">>})

\* The components added nearest first, each behind the one before.
RECURSIVE FolderAddNearestFirst(_, _, _, _)
FolderAddNearestFirst(stem, comps, sep, mode) ==
    IF comps = <<>> THEN stem
    ELSE LET component == StrReplace(Head(comps), <<"\\", "\\", "?", "\\">>, <<>>)
         IN  IF mode = "Prefix"
             THEN component \o sep \o FolderAddNearestFirst(stem, Tail(comps), sep, mode)
             ELSE FolderAddNearestFirst(stem \o component \o sep, Tail(comps), sep, mode)

\* for component in components[start..end]: the component without "\\?\" and
\* the separator go in front of the stem (Prefix) or behind it (Suffix).
RECURSIVE FolderAdd(_, _, _, _)
FolderAdd(stem, comps, sep, mode) ==
    IF comps = <<>> THEN stem
    ELSE LET component == StrReplace(Head(comps), <<"\\", "\\", "?", "\\">>, <<>>)
         IN  FolderAdd(IF mode = "Prefix" THEN component \o sep \o stem
                       ELSE stem \o component \o sep,
                       Tail(comps), sep, mode)

\* end - 1 underflows for end = 0: a panic at the subtraction, or at the slice
\* components[usize::MAX..0] in a build without overflow checks.
FolderProcess(o, f) ==
    LET components == FolderComponents(f.original)
        end == IF o.levels >= Len(components) \/ o.levels <= -Len(components)
               THEN Len(components)
               ELSE (IF o.levels < 0 THEN -o.levels ELSE o.levels)
        start == IF o.levels >= 0 THEN 0 ELSE end - 1
    IN  IF start < 0 THEN Panic(f)
        ELSE IF o.mode \in {"Prefix", "Suffix"}
        THEN Done([f EXCEPT !.stem = FolderAdd(f.stem, SubSeq(components, start + 1, end),
                                               o.sep, o.mode)])
        ELSE Done(f)

-----------------------------------------------------------------------------
(* NumberOptions (src/src/renamer/number.rs)                               *)

NumberOpt(mode, value, pad, char, sep, format) ==
    [mode |-> mode, value |-> value, pad |-> pad, char |-> char, sep |-> sep,
     format |-> format]
\* NumberMode::Prefix, NumberMode::Suffix and NumberMode::Insert(idx)
NumberMode(tag, idx) == [tag |-> tag, idx |-> idx]


\* format!: the value in the base, most significant digit first; "0" for 0.
RECURSIVE InBase(_, _, _)
InBase(val, base, lower) ==
    LET d == IF lower THEN ToLowerChar(Digits[(val % base) + 1]) ELSE Digits[(val % base) + 1]
    IN  IF val < base THEN <<d>> ELSE InBase(val \div base, base, lower) \o <<d>>

\* The letter formats: char::from((val % 26) as u8 + offset), offset 64 or 96.
AsciiFrom(offset) ==
    IF offset = 64
    THEN <<"@","A","B","C","D","E","F","G","H","I","J","K","L","M",
           "N","O","P","Q","R","S","T","U","V","W","X","Y">>
    ELSE <<"grave","a","b","c","d","e","f","g","h","i","j","k","l","m",
           "n","o","p","q","r","s","t","u","v","w","x","y">>

\* while val > 0 { res.push(..); val /= 26 }; res.reverse()
RECURSIVE InLetters(_, _)
InLetters(val, letters) ==
    IF val = 0 THEN <<>>
    ELSE InLetters(val \div 26, letters) \o <<letters[(val % 26) + 1]>>

\* NumberOptions::number_value
NumberValue(o) ==
    LET replace == CASE o.format = "Decimal" -> InBase(o.value, 10, FALSE)
                     [] o.format = "Binary" -> InBase(o.value, 2, FALSE)
                     [] o.format = "Octal" -> InBase(o.value, 8, FALSE)
                     [] o.format = "HexUpper" -> InBase(o.value, 16, FALSE)
                     [] o.format = "HexLower" -> InBase(o.value, 16, TRUE)
                     [] o.format = "AsciiLower" -> InLetters(o.value, AsciiFrom(96))
                     [] o.format = "AsciiUpper" -> InLetters(o.value, AsciiFrom(64))
    IN  IF o.pad > ByteLen(replace)
        THEN [i \in 1..(o.pad - ByteLen(replace)) |-> o.char] \o replace
        ELSE replace

NumberProcess(o, f) ==
    CASE o.mode.tag = "Prefix" -> Done([f EXCEPT !.stem = NumberValue(o) \o o.sep \o f.stem])
      [] o.mode.tag = "Suffix" -> Done([f EXCEPT !.stem = f.stem \o o.sep \o NumberValue(o)])
      [] o.mode.tag = "Insert" ->
            IF InsertStrPanics(f.stem, o.mode.idx) THEN Panic(f)
            ELSE Done([f EXCEPT !.stem = InsertStr(f.stem, o.mode.idx,
                                                   o.sep \o NumberValue(o) \o o.sep)])

-----------------------------------------------------------------------------
(* ExtensionOptions (src/src/file/extension.rs)                            *)

\* ExtensionOptions::Keep, Lower, Upper, Title, New(x), Extra(x) and Remove
ExtOpt(tag, text) == [tag |-> tag, text |-> text]

\* The rule with Extra(x) taking the place of the extension.
ExtensionProcessExtraReplaces(o, f) ==
    LET ext == f.extension
    IN  CASE o.tag = "Lower" /\ IsSome(ext) -> Done([f EXCEPT !.extension = Some(ToLower(Unwrap(ext)))])
          [] o.tag = "Upper" /\ IsSome(ext) -> Done([f EXCEPT !.extension = Some(ToUpper(Unwrap(ext)))])
          [] o.tag = "Title" /\ IsSome(ext) -> Done([f EXCEPT !.extension = Some(ToTitleCase(Unwrap(ext)))])
          [] o.tag = "New" -> Done([f EXCEPT !.extension = Some(o.text)])
          [] o.tag = "Extra" -> Done([f EXCEPT !.extension = Some(o.text)])
          [] o.tag = "Remove" -> Done([f EXCEPT !.extension = None])
          [] OTHER -> Done(f)

\* match (self, &mut file.extension) { ... }
ExtensionProcess(o, f) ==
    LET ext == f.extension
    IN  CASE o.tag = "Lower" /\ IsSome(ext) -> Done([f EXCEPT !.extension = Some(ToLower(Unwrap(ext)))])
          [] o.tag = "Upper" /\ IsSome(ext) -> Done([f EXCEPT !.extension = Some(ToUpper(Unwrap(ext)))])
          [] o.tag = "Title" /\ IsSome(ext) -> Done([f EXCEPT !.extension = Some(ToTitleCase(Unwrap(ext)))])
          [] o.tag = "New" -> Done([f EXCEPT !.extension = Some(o.text)])
          [] o.tag = "Extra" /\ IsSome(ext) ->
                Done([f EXCEPT !.extension = Some(Unwrap(ext) \o <<".">> \o o.text)])
          [] o.tag = "Extra" /\ ~IsSome(ext) -> Done([f EXCEPT !.extension = Some(o.text)])
          [] o.tag = "Remove" -> Done([f EXCEPT !.extension = None])
          [] OTHER -> Done(f)

-----------------------------------------------------------------------------
(* Renamer::preview, Renamer::with_option (src/src/renamer.rs)             *)

\* opt.process(self) by the kind of the boxed option.
Process(kind, o, f) ==
    CASE kind = "regex" -> RegexProcess(o, f)
      [] kind = "name" -> NameProcess(o, f)
      [] kind = "replace" -> ReplaceProcess(o, f)
      [] kind = "case" -> CaseProcess(o, f)
      [] kind = "remove" -> RemoveProcess(o, f)
      [] kind = "add" -> AddProcess(o, f)
      [] kind = "date" -> DateProcess(o, f)
      [] kind = "folder" -> FolderProcess(o, f)
      [] kind = "number" -> NumberProcess(o, f)
      [] kind = "ext" -> ExtensionProcess(o, f)

PreviewOrderCaseFirst == <<"regex", "case", "name", "replace", "remove", "add", "date",
                           "folder", "number", "ext">>

\* The pushes onto opts, in the order of the if-let blocks of preview.
PreviewOrder == <<"regex", "name", "replace", "case", "remove", "add", "date",
                  "folder", "number", "ext">>

\* let mut opts = vec![]; if let Some(opt) = &self.regex { opts.push(..) } ...
PreviewOpts(r) ==
    LET all == [i \in 1..Len(PreviewOrder) |->
                    [kind |-> PreviewOrder[i], o |-> r[PreviewOrder[i]]]]
    IN  SelectSeq(all, LAMBDA e : IsSome(e.o))

\* for opt in opts { opt.process(self) }: a panic ends the loop, a rule that
\* never returns stops it.
RECURSIVE RunOpts(_, _)
RunRest(opts, out) ==
    IF out.panicked \/ out.hung THEN out ELSE RunOpts(Tail(opts), out.file)
RunOpts(opts, f) ==
    IF opts = <<>> THEN Done(f)
    ELSE RunRest(opts, Process(Head(opts).kind, Unwrap(Head(opts).o), f))

\* The kinds whose process was called, in call order.
RECURSIVE RunTrace(_, _)
TraceRest(opts, out) ==
    IF out.panicked \/ out.hung THEN <<>> ELSE RunTrace(Tail(opts), out.file)
RunTrace(opts, f) ==
    IF opts = <<>> THEN <<>>
    ELSE <<Head(opts).kind>>
         \o TraceRest(opts, Process(Head(opts).kind, Unwrap(Head(opts).o), f))

\* The path built from the parent of original, the stem and the extension.
NewName(f) ==
    LET pushed == PathPush(IF IsSome(PathParent(f.original))
                           THEN Unwrap(PathParent(f.original)) ELSE <<"/">>, f.stem)
    IN  IF IsSome(f.extension) THEN WithExtension(pushed, Unwrap(f.extension))
        ELSE pushed

\* Renamer::preview: the Renamer it leaves and the path it returns.
PreviewNamed(out, new_name) ==
    IF out.panicked \/ out.hung
    THEN [panicked |-> out.panicked, hung |-> out.hung, file |-> out.file, path |-> <<>>]
    ELSE [panicked |-> FALSE, hung |-> FALSE,
          file |-> [out.file EXCEPT !.renamed = new_name], path |-> new_name]
PreviewEnd(out) == PreviewNamed(out, NewName(out.file))
Preview(r) == PreviewEnd(RunOpts(PreviewOpts(r), r))

\* match option { Regex(opt) => self.regex = Some(opt), ... }: the field named
\* after the variant.  Options has no Replace variant.
WithOptionSet(r, kind, o) == [r EXCEPT ![kind] = Some(o)]

-----------------------------------------------------------------------------
(* The file system, TryFrom<&Path> and Ord for Renamer                     *)

\* Renamer::try_from(path): NotFound for a missing path, then as Renamer::new
\* with is_dir read from the file system.
RenamerTryFrom(fsys, path) ==
    IF ~Exists(fsys, path) THEN [ok |-> FALSE, err |-> "NotFound", val |-> None]
    ELSE IF ~IsSome(FileStem(path)) THEN [ok |-> FALSE, err |-> "BadStem", val |-> None]
    ELSE [ok |-> TRUE, err |-> "", val |-> Some(NewRenamer(path, IsDir(fsys, path)))]

\* lhs.push_str(ext)
PushExt(r) == r.stem \o Unwrap(r.extension)

RenamerCmpNoKind(fsys, a, b) ==
    CASE ~IsSome(a.extension) /\ ~IsSome(b.extension) -> StrCmp(a.stem, b.stem)
      [] ~IsSome(a.extension) /\ IsSome(b.extension) -> StrCmp(a.stem, PushExt(b))
      [] IsSome(a.extension) /\ ~IsSome(b.extension) -> StrCmp(PushExt(a), b.stem)
      [] IsSome(a.extension) /\ IsSome(b.extension) -> StrCmp(PushExt(a), PushExt(b))

\* impl Ord for Renamer: cmp(self = a, other = b); is_dir is asked of the file
\* system for the original path.
RenamerCmp(fsys, a, b) ==
    CASE IsDir(fsys, a.original) /\ IsDir(fsys, b.original) -> StrCmp(a.stem, b.stem)
      [] IsDir(fsys, a.original) /\ ~IsDir(fsys, b.original) -> "Less"
      [] ~IsDir(fsys, a.original) /\ IsDir(fsys, b.original) -> "Greater"
      [] ~IsDir(fsys, a.original) /\ ~IsDir(fsys, b.original) ->
            CASE ~IsSome(a.extension) /\ ~IsSome(b.extension) -> StrCmp(a.stem, b.stem)
              [] ~IsSome(a.extension) /\ IsSome(b.extension) -> StrCmp(a.stem, PushExt(b))
              [] IsSome(a.extension) /\ ~IsSome(b.extension) -> StrCmp(PushExt(a), b.stem)
              [] IsSome(a.extension) /\ IsSome(b.extension) -> StrCmp(PushExt(a), PushExt(b))

\* fs::rename(from, to) as rename(2) does it: it fails for a missing source, an
\* empty destination, a destination whose directory is missing, and a
\* destination of the other kind; it replaces an existing destination.
\* Directories of the model are empty.
FsRenameFails(fsys, from, to) ==
    LET dst == NormPath(to)
        dir == IF IsSome(PathParent(dst)) THEN Unwrap(PathParent(dst)) ELSE <<"/">>
    IN  \/ ~Exists(fsys, NormPath(from))
        \/ dst = <<>>
        \/ ~IsSome(FileName(dst))
        \/ (dir \notin {<<>>, <<"/">>} /\ ~IsDir(fsys, dir))
        \/ (Exists(fsys, dst) /\ fsys[dst] /= fsys[NormPath(from)])
FsRename(fsys, from, to) ==
    IF FsRenameFails(fsys, from, to) THEN [ok |-> FALSE, fs |-> fsys]
    ELSE [ok |-> TRUE,
          fs |-> [q \in (DOMAIN fsys \ {NormPath(from)}) \cup {NormPath(to)} |->
                     IF q = NormPath(to) THEN fsys[NormPath(from)] ELSE fsys[q]]]

\* fs::rename(&self.original, new_name)?; Ok(()) for the new_name preview left.
RenameTo(r, fsys, new_name) ==
    IF new_name.panicked \/ new_name.hung
    THEN [panicked |-> new_name.panicked, hung |-> new_name.hung, result |-> "",
          fs |-> fsys, to |-> <<>>]
    ELSE [panicked |-> FALSE, hung |-> FALSE,
          result |-> IF FsRename(fsys, r.original, new_name.path).ok THEN "Ok" ELSE "Err",
          fs |-> FsRename(fsys, r.original, new_name.path).fs,
          to |-> new_name.path]

\* Renamer::rename: preview, then fs::rename(&self.original, new_name)?.
Rename(r, fsys) == RenameTo(r, fsys, Preview(r))

\* The models and orderings of the specifications that compare nothing, and the
\* batch of those that commit nothing.
NoCmp == models = <<>> /\ ord = None
NoBatch == selected = <<>> /\ results = <<>> /\ pc = "idle"

-----------------------------------------------------------------------------
(* The Renamer under configuration and preview                             *)

MaxCalls == 2
MaxPreviews == 2
MaxNow == 1

\* The files that exist beside the Renamer: "d" is a directory.
SpecFiles ==
    [p \in { <<"f","i","l","e",".","t","x","t">>, <<"d","/","a",".","b">>, <<"d">>,
             <<"é",".","b">> } |->
        IF p = <<"d">> THEN "dir" ELSE "file"]

\* Paths a Renamer is created from.
SpecPaths == {
    <<"f","i","l","e",".","t","x","t">>,
    <<"a",".","b",".","c">>,
    <<"d","/","a",".","b">>,
    <<"/","a","B">>,
    <<"é",".","b">>,
    <<".","a">> }

AddOpt(prefix, insert, suffix, ws) ==
    [prefix |-> prefix, insert |-> insert, suffix |-> suffix, word_space |-> ws]
CaseOpt(case, snake, exceptions) ==
    [case |-> case, snake |-> snake, exceptions |-> exceptions]

\* The Options values handed to with_option.
SpecOptions == {
    [kind |-> "name", o |-> NameFixed(<<"n","e","w","_","n","a","m","e">>)],
    [kind |-> "name", o |-> NameFixed(<<"a","/","b">>)],
    [kind |-> "name", o |-> NameReverse],
    [kind |-> "case", o |-> CaseOpt("Upper", FALSE, <<"n">>)],
    [kind |-> "add", o |-> AddOpt(Some(<<"x">>), None, None, FALSE)],
    [kind |-> "add", o |-> AddOpt(None, Some([pos |-> 1, text |-> <<"!">>]), None, TRUE)],
    [kind |-> "regex", o |-> RegexOpt(<<"e">>, <<"E">>, FALSE)],
    [kind |-> "regex", o |-> RegexOpt(<<"(">>, <<"x">>, TRUE)],
    [kind |-> "remove", o |-> [RemoveDefault EXCEPT !.first_n = 1]],
    [kind |-> "date", o |-> DateOpt("Suffix", "Current", DateFormat("Custom", "Dmy", None), <<"%","S">>,
                                     <<"_">>, <<>>, FALSE)],
    [kind |-> "folder", o |-> FolderOpt("Prefix", <<"~">>, 1)],
    [kind |-> "number", o |-> NumberOpt(NumberMode("Suffix", 0), 1, 2, "0", <<"-">>, "Decimal")],
    [kind |-> "ext", o |-> ExtOpt("Upper", <<>>)] }

\* The ReplaceOptions handed to the builder's with_replace.
SpecReplace == { ReplaceOpt(<<"e">>, <<"a","b">>, TRUE) }

Init ==
    /\ \E p \in SpecPaths : file = Unwrap(RenamerNew(p).val)
    /\ panicked = FALSE
    /\ hung = FALSE
    /\ now = 0
    /\ calls = <<>>
    /\ returned = <<>>
    /\ trace = <<>>
    /\ opt = None
    /\ applied = "no"
    /\ fs = SpecFiles
    /\ NoCmp
    /\ NoBatch

\* The clock moves on.
Tick ==
    /\ now < MaxNow
    /\ now' = now + 1
    /\ UNCHANGED <<renVars, opt, applied, fs, cmpVars, batchVars>>

\* rename = rename.with_option(option)
WithOption(option) ==
    /\ ~panicked /\ ~hung
    /\ returned = <<>>
    /\ Len(calls) < MaxCalls
    /\ file' = WithOptionSet(file, option.kind, option.o)
    /\ calls' = Append(calls, option)
    /\ UNCHANGED <<now, panicked, hung, returned, trace, opt, applied, fs, cmpVars, batchVars>>

\* RenamerBuilder::with_replace(replace, with, case_sensative)
WithReplace(o) ==
    /\ ~panicked /\ ~hung
    /\ returned = <<>>
    /\ Len(calls) < MaxCalls
    /\ file' = [file EXCEPT !.replace = Some(o)]
    /\ calls' = Append(calls, [kind |-> "replace", o |-> o])
    /\ UNCHANGED <<now, panicked, hung, returned, trace, opt, applied, fs, cmpVars, batchVars>>

\* What a call of preview that ended as out leaves.
PreviewLeaves(out) ==
    /\ file' = out.file
    /\ panicked' = out.panicked
    /\ hung' = out.hung
    /\ returned' = IF out.panicked \/ out.hung THEN returned ELSE Append(returned, out.path)

\* rename.preview()
PreviewCall ==
    /\ ~panicked /\ ~hung
    /\ Len(returned) < MaxPreviews
    /\ PreviewLeaves(Preview(file))
    /\ trace' = RunTrace(PreviewOpts(file), file)
    /\ UNCHANGED <<now, calls, opt, applied, fs, cmpVars, batchVars>>

Next ==
    \/ \E option \in SpecOptions : WithOption(option)
    \/ \E o \in SpecReplace : WithReplace(o)
    \/ PreviewCall
    \/ Tick

Spec == Init /\ [][Next]_vars

-----------------------------------------------------------------------------
(* One rule on one file: opt.process(&mut file), as the unit tests of the  *)
(* rules call it, and the same rule as the only one of a preview           *)

MaxLen == 3

RuleAlphabet == {"a", "B", " ", "é"}

\* Every string of at most n characters of the alphabet.
StringsUpTo(n) == UNION {[1..k -> RuleAlphabet] : k \in 0..n}

\* The file names the rules are run on: a Renamer exists for those with a stem.
RulePaths ==
    {p \in StringsUpTo(MaxLen) : RenamerNew(p).ok}
    \cup { <<"S","o","m","e"," ","T","e","s","t"," ","F","i","l","e">>,
           <<"S","o","m","e","T","e","s","t","F","i","l","e">>,
           <<"a",".","B">>, <<"B","a",".","a",".","é">> }

NameTexts == { <<>>, <<"a">>, <<"a","/","b">>, <<"B",".","a">>, <<"é"," ">> }
NameOptionValues ==
    {NameKeep, NameRemove, NameReverse} \cup {NameFixed(x) : x \in NameTexts}

InsertPositions == (-(MaxLen + 2))..(MaxLen + 2) \cup {100, -100, I32Min}
AddOptionValues ==
    {AddOpt(pre, ins, suf, ws) :
        pre \in {None, Some(<<"-">>)},
        ins \in {None} \cup {Some([pos |-> i, text |-> <<"!">>]) : i \in InsertPositions},
        suf \in {None, Some(<<"B">>)},
        ws \in BOOLEAN}

RuleOptions ==
    {[kind |-> "name", o |-> o] : o \in NameOptionValues}
    \cup {[kind |-> "add", o |-> o] : o \in AddOptionValues}

MaxValue == 52

\* A rule with the file names it is run on, for the rules whose options and
\* names need characters of their own.
RuleCases ==
    LET Number == {[path |-> <<"a">>, kind |-> "number",
                    o |-> NumberOpt(NumberMode("Suffix", 0), v, 0, "0", <<>>, fmt)] :
                       v \in 0..MaxValue, fmt \in {"AsciiUpper", "AsciiLower"}}
        TestFile == <<"t","e","s","t","_","f","i","l","e">>
        FirstLastCases ==
            {[path |-> p, kind |-> "remove",
              o |-> [RemoveDefault EXCEPT !.first_n = f, !.last_n = l]] :
                 p \in RulePaths, f \in 0..(MaxLen + 1), l \in 0..(MaxLen + 1)}
            \cup {[path |-> TestFile, kind |-> "remove",
                   o |-> [RemoveDefault EXCEPT !.first_n = fl[1], !.last_n = fl[2]]] :
                      fl \in {<<6, 4>>, <<4, 4>>, <<60, 4>>}}
        \* Every combination of the twelve steps of the Remove rule.
        Steps == {[first_n |-> fl, last_n |-> 0, range |-> rg, characters |-> ch,
                   words |-> wd, crop |-> [before |-> TRUE, text |-> cr], digits |-> dg,
                   ascii_high |-> ah, trim |-> tr, double_space |-> ds, chars |-> lt,
                   symbols |-> sy, lead_dots |-> ld] :
                      fl \in {0, 1}, rg \in {<<0, 0>>, <<2, 2>>}, ch \in {<<>>, <<"a">>},
                      wd \in {<<>>, <<"B">>}, cr \in {<<>>, <<" ">>}, dg \in BOOLEAN,
                      ah \in BOOLEAN, tr \in BOOLEAN, ds \in BOOLEAN, lt \in BOOLEAN,
                      sy \in BOOLEAN, ld \in BOOLEAN}
        StepCases == {[path |-> p, kind |-> "remove", o |-> o] :
                         p \in { <<".","a","1"," ","B"," "," ","é","-">>,
                                 <<"é","B","1"," "," ","a"," ">> },
                         o \in Steps}
        \* remove.rs combined_removals, with é for its two-byte character.
        Combined == [path |-> <<"s","o","m","e"," ","t","e","s","t"," ","f","i","l","e"," "," ",
                                "1","2","3","4","w","i","t","h","é","!"," "," ",
                                "t","e","s","t","i","n","g">>,
                     kind |-> "remove",
                     o |-> [first_n |-> 2, last_n |-> 2, range |-> <<1, 2>>,
                            characters |-> <<"f","t">>,
                            words |-> <<"i","l","e"," ","w","*","h">>,
                            crop |-> [before |-> TRUE, text |-> <<>>], digits |-> TRUE,
                            ascii_high |-> TRUE, trim |-> TRUE, double_space |-> TRUE,
                            chars |-> FALSE, symbols |-> TRUE, lead_dots |-> FALSE]]
        \* One wildcard word on stems with its two halves in every order.
        Wildcard == {[path |-> p, kind |-> "remove",
                      o |-> [RemoveDefault EXCEPT !.words = <<"[","*","]">>]] :
                        p \in UNION {[1..n -> {"[", "]", "a"}] : n \in 1..MaxLen}
                               \cup { <<"H","e","l","l","o","[","A","B","C","]"," ","J","o","e">>,
                                      <<"[","a","]","[","a","]">> }}
        \* The exceptions of the doc comment of CaseOptions, in every mode.
        Exceptions == {[path |-> p, kind |-> "case",
                        o |-> CaseOpt(c, FALSE, <<"P","D","F",";","d","o","c">>)] :
                          p \in { <<"p","d","f">>, <<"P","d","f">>, <<"P","D","F">>,
                                  <<"D","O","C">>, <<"D","o","C">>,
                                  <<"a"," ","p","d","f"," ","D","o","C">> },
                          c \in {"Keep", "Lower", "Upper", "Title", "Sentence"}}
        \* Patterns that compile and patterns that do not, with and without
        \* the extension, on names with and without one.
        Patterns == {[path |-> p, kind |-> "regex", o |-> RegexOpt(e, r, x)] :
                        p \in { <<"a",".","B">>, <<"B","a",".","a",".","é">>, <<"a","B">>,
                                <<"f","i","l","e","0","1","2","3",".","t","x","t">> },
                        e \in { <<"a">>, <<".">>, <<".","B">>, <<"B">>, <<"(">>, <<"[","a">>,
                                <<"0","1","2","3",".","t","x","t">> },
                        r \in { <<>>, <<"x">>, <<"x",".","y">>,
                                <<"A","B","C","D",".","c","s","v">> },
                        x \in BOOLEAN}
        \* Searches found once, several times and not at all, in either mode.
        Replacements == {[path |-> p, kind |-> "replace", o |-> ReplaceOpt(r, w, cs)] :
                            p \in { <<"1","2","-","3","4","-","5","6">>,
                                    <<"f","i","l","e","a","b","c">>, <<"a","B","a">>,
                                    <<"é"," ","a">>, <<"a">> },
                            r \in { <<"-">>, <<"A","B","C">>, <<"q","r","s">>, <<"a">>,
                                    <<"é">>, <<"B">> },
                            w \in { <<"_">>, <<"1","2","3">>, <<"A">>, <<>> },
                            cs \in BOOLEAN}
                        \cup {[path |-> p, kind |-> "replace", o |-> ReplaceOpt(rw[1], rw[2], cs)] :
                                 p \in { <<"f","i","l","e","a","b","c">>, <<"a">> },
                                 rw \in { << <<>>, <<>> >>, << <<>>, <<"x">> >>,
                                          << <<"a","b","c">>, <<"A","B","C">> >> },
                                 cs \in BOOLEAN}
        \* Every ExtensionOptions variant on names with and without extension.
        Extensions == {[path |-> p, kind |-> "ext", o |-> ExtOpt(t, x)] :
                          p \in { <<"a",".","B">>, <<"a","B">>, <<"B","a",".","a",".","é">>,
                                  <<"f","i","l","e",".","T","x","t">>, <<".","a">> },
                          t \in {"Keep", "Lower", "Upper", "Title", "New", "Extra", "Remove"},
                          x \in { <<"x">>, <<"Y",".","z">>, <<>> }}
        \* Files below no, one, two, three and four folders, every number of
        \* levels of either sign around the number of folders.
        Folders == {[path |-> p, kind |-> "folder", o |-> FolderOpt(m, sp, l)] :
                       p \in { <<"f">>, <<"b","/","f",".","x">>, <<"c","/","b","/","a","/","f">>,
                               <<"\\","\\","?","\\","c","/","b","/","f">>,
                               <<"/","s","o","m","e","/","f","i","l","e","/","p","a","t","h","/",
                                 "t","o","/","t","e","s","t"," ","f","i","l","e",".","t","x","t">> },
                       m \in {"Prefix", "Suffix", "None"}, sp \in { <<"~">>, <<>> },
                       l \in (-5)..5}
        \* Every date type and mode on files that exist, one of them without
        \* a creation time, and on a file that does not exist.
        Dates == {[path |-> p, kind |-> "date",
                   o |-> DateOpt(m, t, f, <<"%","S">>, sp, <<"-">>, FALSE)] :
                     p \in { <<"f","i","l","e",".","t","x","t">>, <<"d","/","a",".","b">>,
                             <<"a",".","b",".","c">> },
                     m \in {"Prefix", "Suffix", "None"},
                     t \in {"Created", "Modified", "Current"},
                     f \in {DateFormat("Custom", "Dmy", None), DateFormat("Std", "Dmy", None),
                            DateFormat("Std", "Ymd", Some("Hm"))},
                     sp \in { <<"_">>, <<>> }}
        \* Every format with the pad character NumberView::build gives it.
        Padded == {[path |-> <<"a">>, kind |-> "number",
                    o |-> NumberOpt(NumberMode("Suffix", 0), v, pd,
                                    CASE fmt = "AsciiUpper" -> "A" [] fmt = "AsciiLower" -> "a"
                                      [] OTHER -> "0",
                                    <<>>, fmt)] :
                      v \in 1..MaxValue, pd \in {0, 2, 3},
                      fmt \in {"Decimal", "Binary", "Octal", "HexUpper", "HexLower",
                               "AsciiUpper", "AsciiLower"}}
        \* The number in front, behind and at every offset up to one past
        \* the end of the stem.
        Placed == {[path |-> p, kind |-> "number",
                    o |-> NumberOpt(m, 7, pd, "0", sp, "Decimal")] :
                      p \in { <<"a","B">>, <<"a","B",".","a">>, <<"é","a">> },
                      m \in {NumberMode("Prefix", 0), NumberMode("Suffix", 0)}
                             \cup {NumberMode("Insert", idx) : idx \in 0..MaxLen},
                      pd \in {0, 2}, sp \in { <<"-">>, <<>> }}
    IN  Number \cup FirstLastCases \cup StepCases \cup {Combined} \cup Wildcard
        \cup Exceptions \cup Patterns \cup Replacements \cup Extensions \cup Folders
        \cup Dates \cup Padded \cup Placed

InitRule ==
    /\ \/ /\ \E p \in RulePaths : file = Unwrap(RenamerNew(p).val)
          /\ \E option \in RuleOptions : opt = Some(option)
       \/ \E c \in RuleCases :
             /\ file = Unwrap(RenamerNew(c.path).val)
             /\ opt = Some([kind |-> c.kind, o |-> c.o])
    /\ panicked = FALSE
    /\ hung = FALSE
    /\ now = 0
    /\ calls = <<>>
    /\ returned = <<>>
    /\ trace = <<>>
    /\ applied = "no"
    /\ fs = (IF Unwrap(opt).kind = "date" THEN SpecFiles ELSE NoFiles)
    /\ NoCmp
    /\ NoBatch

\* opt.process(&mut file)
ApplyRule ==
    /\ applied = "no"
    /\ file' = Process(Unwrap(opt).kind, Unwrap(opt).o, file).file
    /\ panicked' = Process(Unwrap(opt).kind, Unwrap(opt).o, file).panicked
    /\ hung' = Process(Unwrap(opt).kind, Unwrap(opt).o, file).hung
    /\ applied' = "process"
    /\ UNCHANGED <<now, calls, returned, trace, opt, fs, cmpVars, batchVars>>

\* Renamer::new(path).with_option(opt).preview(), the Replace rule set as
\* with_replace sets it.
ApplyInPreview ==
    /\ applied = "no"
    /\ file' = Preview(WithOptionSet(file, Unwrap(opt).kind, Unwrap(opt).o)).file
    /\ panicked' = Preview(WithOptionSet(file, Unwrap(opt).kind, Unwrap(opt).o)).panicked
    /\ hung' = Preview(WithOptionSet(file, Unwrap(opt).kind, Unwrap(opt).o)).hung
    /\ returned' = IF panicked' \/ hung' THEN returned
                   ELSE <<Preview(WithOptionSet(file, Unwrap(opt).kind, Unwrap(opt).o)).path>>
    /\ trace' = RunTrace(PreviewOpts(WithOptionSet(file, Unwrap(opt).kind, Unwrap(opt).o)), file)
    /\ calls' = <<Unwrap(opt)>>
    /\ applied' = "preview"
    /\ UNCHANGED <<now, opt, fs, cmpVars, batchVars>>

NextRule == ApplyRule \/ ApplyInPreview

SpecRule == InitRule /\ [][NextRule]_vars

-----------------------------------------------------------------------------
(* Properties of Renamer::preview                                          *)

\* The stem Renamer::new derived from the original path.
OriginalStem == Unwrap(FileStem(file.original))
\* The file as Renamer::new made it, before any rule ran.
Original == Unwrap(RenamerNew(file.original).val)

\* C1: with no Date rule configured, every preview call of a row of calls
\* with unchanged configuration returns the path the first call returned.
C1_PreviewIdempotent ==
    (\A k \in 1..Len(calls) : calls[k].kind /= "date") =>
        \A i \in 1..Len(returned) : PathEq(returned[i], returned[1])

\* The order of the rules the pipeline is documented to have.
C2_Order == <<"regex", "name", "replace", "case", "remove", "add", "date",
              "folder", "number", "ext">>
C2_Rank(kind) == CHOOSE i \in 1..Len(C2_Order) : C2_Order[i] = kind

\* The rule of a kind in force after the configuration calls cs: the last one.
C2_Configured(cs, kind) ==
    LET at == {i \in 1..Len(cs) : cs[i].kind = kind}
    IN  IF at = {} THEN None
        ELSE Some(cs[CHOOSE i \in at : \A j \in at : j <= i].o)

\* The rules of the kinds C2_Order[k..], each run on what the previous one left.
RECURSIVE C2_RunFrom(_, _, _)
C2_RunFrom(k, cs, f) ==
    IF k > Len(C2_Order) THEN f
    ELSE IF IsSome(C2_Configured(cs, C2_Order[k]))
         THEN C2_RunFrom(k + 1, cs,
                         Process(C2_Order[k], Unwrap(C2_Configured(cs, C2_Order[k])), f).file)
    ELSE C2_RunFrom(k + 1, cs, f)

C2_NewName == <<"n","e","w","_","n","a","m","e">>

\* C2: preview runs the configured rules in the fixed order, whatever the order
\* of the configuration calls: in every step the rules that ran did so in
\* ascending rank; a preview that returns has run every configured kind and
\* returns what the rules in force, taken in the fixed order at the time of the
\* call, leave; and Fixed("new_name") with Case Upper and exception "n" gives
\* nEW_nAME.txt in either call order.
C2_FixedOrder ==
    [][ /\ \A i, j \in 1..Len(trace') : i < j => C2_Rank(trace'[i]) < C2_Rank(trace'[j])
        /\ Len(returned') > Len(returned) =>
               /\ {trace'[i] : i \in 1..Len(trace')} = {calls[i].kind : i \in 1..Len(calls)}
               /\ returned'[Len(returned')] = NewName(C2_RunFrom(1, calls, file))
        /\ ( /\ Len(returned') > Len(returned)
             /\ returned = <<>>
             /\ file.original = <<"f","i","l","e",".","t","x","t">>
             /\ {calls[i] : i \in 1..Len(calls)} =
                    {[kind |-> "name", o |-> NameFixed(C2_NewName)],
                     [kind |-> "case", o |-> CaseOpt("Upper", FALSE, <<"n">>)]} )
           => returned'[1] = <<"n","E","W","_","n","A","M","E",".","t","x","t">> ]_vars

\* Case was configured before Name, and preview ran Name before Case.
C2_Witness ==
    /\ Len(returned) >= 1
    /\ Len(calls) = 2
    /\ calls[1] = [kind |-> "case", o |-> CaseOpt("Upper", FALSE, <<"n">>)]
    /\ calls[2] = [kind |-> "name", o |-> NameFixed(C2_NewName)]
    /\ trace = <<"name", "case">>

\* The Renamer with its Regex rule taken away.
C17_NoRegex(r) == [r EXCEPT !.regex = None]

\* What a preview that ended as without ended as leaves, the regex slot aside.
C17_SameAs(without) ==
    /\ panicked' = without.panicked
    /\ hung' = without.hung
    /\ file'.stem = without.file.stem
    /\ file'.extension = without.file.extension
    /\ Len(returned') > Len(returned) => returned'[Len(returned')] = without.path

\* C17: a preview with a Regex rule whose pattern does not compile calls the
\* rule, which changes neither stem nor extension and raises nothing, and then
\* runs the remaining rules: it ends as the preview without the Regex rule does.
C17_InvalidPattern ==
    [][ ( /\ IsSome(file.regex)
          /\ ~RegexCompiles(Unwrap(file.regex).exp)
          /\ (Len(returned') > Len(returned) \/ panicked' \/ hung') ) =>
            /\ trace' = <<"regex">> \o RunTrace(PreviewOpts(C17_NoRegex(file)), C17_NoRegex(file))
            /\ C17_SameAs(Preview(C17_NoRegex(file)))
            /\ Len(PreviewOpts(file)) = 1 =>
                   /\ ~panicked' /\ ~hung'
                   /\ file'.stem = file.stem
                   /\ file'.extension = file.extension ]_vars

\* The pattern "(" was configured with Case Upper and the preview, having
\* called the Regex rule, went on to upper-case the stem.
C17_Witness ==
    /\ Len(returned) >= 1
    /\ file.regex = Some(RegexOpt(<<"(">>, <<"x">>, TRUE))
    /\ trace = <<"regex", "case">>
    /\ file.original = <<"f","i","l","e",".","t","x","t">>
    /\ returned[1] = <<"F","I","L","E",".","t","x","t">>

\* C3: with no rule configured, the previewed path has the file name of the
\* original path.
C3_UnconfiguredKeepsName ==
    (calls = <<>> /\ Len(returned) >= 1) => FileName(returned[1]) = FileName(file.original)

\* C5: after a rule's process has run, the stem holds no path separator.
C5_NoSeparatorInStem ==
    trace /= <<>> => \A i \in 1..Len(file.stem) : file.stem[i] /= "/"

\* C26: every path preview returns has the parent directory of the original
\* path: the file is renamed where it is, whatever the rules hold.
C26_SameParent ==
    \A i \in 1..Len(returned) :
        /\ IsSome(PathParent(returned[i]))
        /\ PathEq(Unwrap(PathParent(returned[i])), Unwrap(PathParent(file.original)))

-----------------------------------------------------------------------------
(* Properties of NameOptions and AddOptions                                *)

RuleIs(kind) == applied /= "no" /\ Unwrap(opt).kind = kind

\* C8: Name::Fixed(x) leaves the stem x and the extension as it was, run on
\* its own or as the only configured rule of a preview.
C8_FixedName ==
    (RuleIs("name") /\ Unwrap(opt).o.tag = "Fixed") =>
        /\ ~panicked
        /\ file.stem = Unwrap(opt).o.text
        /\ file.extension = PathExtension(file.original)

\* A file with an extension was given a fixed name other than its stem.
C8_Witness ==
    /\ RuleIs("name")
    /\ applied = "preview"
    /\ Unwrap(opt).o = NameFixed(<<"B",".","a">>)
    /\ file.original = <<"a",".","B">>
    /\ file.stem = <<"B",".","a">>

\* Only the positional insert of AddOptions is configured.
InsertOnly ==
    /\ RuleIs("add")
    /\ IsSome(Unwrap(opt).o.insert)
    /\ Unwrap(opt).o.prefix = None
    /\ Unwrap(opt).o.suffix = None
    /\ ~Unwrap(opt).o.word_space

\* The offset the insert is documented to use for index i and length n.
C9_Offset(n, i) ==
    IF i >= n THEN n ELSE IF i >= 0 THEN i ELSE IF i <= -n THEN 0 ELSE n + i

\* C9: the positional insert never fails and puts the text at the documented
\* offset, keeping the original characters in order.
C9_InsertPlaces ==
    InsertOnly =>
        LET ins == Unwrap(Unwrap(opt).o.insert)
            off == C9_Offset(Len(OriginalStem), ins.pos)
        IN  /\ ~panicked
            /\ file.stem = SubSeq(OriginalStem, 1, off) \o ins.text
                           \o SubSeq(OriginalStem, off + 1, Len(OriginalStem))

\* A space before every capital letter but the first character, unless a
\* space is already there.
C10_Spaced(s) ==
    LET piece(i) == IF i > 1 /\ IsUpperChar(s[i]) /\ s[i - 1] /= " "
                    THEN <<" ", s[i]>> ELSE <<s[i]>>
        RECURSIVE from(_)
        from(i) == IF i > Len(s) THEN <<>> ELSE piece(i) \o from(i + 1)
    IN  from(1)

\* C10: word_space puts a space before every capital letter except the first
\* character, unless a space is already immediately before it.
C10_WordSpace ==
    ( /\ RuleIs("add")
      /\ Unwrap(opt).o = AddOpt(None, None, None, TRUE) )
    => (~panicked /\ file.stem = C10_Spaced(OriginalStem))

-----------------------------------------------------------------------------
(* The Renamer configured, previewed, reverted and renamed                 *)

\* Renamer::revert: self.original.clone().try_into().unwrap() panics on the
\* Err of try_from; stem and extension are taken from the Renamer it made.
Revert(r, fsys) ==
    IF RenamerTryFrom(fsys, r.original).ok
    THEN Done([r EXCEPT !.stem = Unwrap(RenamerTryFrom(fsys, r.original).val).stem,
                        !.extension = Unwrap(RenamerTryFrom(fsys, r.original).val).extension])
    ELSE Panic(r)

\* rename.revert(), once in a run
RevertCall ==
    /\ ~panicked /\ ~hung
    /\ applied = "no"
    /\ file' = Revert(file, fs).file
    /\ panicked' = Revert(file, fs).panicked
    /\ applied' = "revert"
    /\ UNCHANGED <<now, hung, calls, returned, trace, opt, fs, cmpVars, batchVars>>

\* What a call of rename that ended as out leaves: the Result and the
\* destination handed to fs::rename.
RenameLeaves(out) ==
    /\ panicked' = out.panicked
    /\ hung' = out.hung
    /\ fs' = out.fs
    /\ results' = IF out.panicked \/ out.hung THEN results
                  ELSE <<[result |-> out.result, to |-> out.to]>>

\* rename.rename(): the Renamer is consumed, nothing is called after it.
RenameCall ==
    /\ ~panicked /\ ~hung
    /\ applied \in {"no", "revert"}
    /\ RenameLeaves(Rename(file, fs))
    /\ file' = Preview(file).file
    /\ applied' = "rename"
    /\ UNCHANGED <<now, calls, returned, trace, opt, cmpVars, selected, pc>>

NextUse ==
    \/ \E option \in SpecOptions : applied /= "rename" /\ WithOption(option)
    \/ applied /= "rename" /\ PreviewCall
    \/ RevertCall
    \/ RenameCall

SpecUse == Init /\ [][NextUse]_vars

\* C23: without a Date rule, revert after any number of previews returns,
\* leaves the stem and extension of the original path and the rules as they
\* were, and a preview after it returns what the first preview returned.
C23_Revert ==
    [][ (\A k \in 1..Len(calls) : calls[k].kind /= "date") =>
           /\ (applied = "no" /\ applied' = "revert") =>
                  /\ ~panicked'
                  /\ file'.stem = Original.stem
                  /\ file'.extension = Original.extension
                  /\ \A slot \in Slots : file'[slot] = file[slot]
           /\ (applied = "revert" /\ returned /= <<>> /\ Len(returned') > Len(returned)) =>
                  returned'[Len(returned')] = returned[1] ]_vars

\* C24: without a Date rule, rename hands fs::rename the path the latest
\* preview returned, however many previews there were, and with no preview
\* before it the path a first preview returns.
C24_RenameToPreviewed ==
    [][ ( /\ \A k \in 1..Len(calls) : calls[k].kind /= "date"
          /\ applied = "no" /\ applied' = "rename"
          /\ ~panicked' /\ ~hung' ) =>
            results'[1].to = IF returned /= <<>> THEN returned[Len(returned)]
                             ELSE Preview(file).path ]_vars

-----------------------------------------------------------------------------
(* Renamer::new and Renamer::try_from on a path                            *)

\* The paths a Renamer is asked for: names, dots and separators in every
\* order, the empty path and the root among them.
NewPaths == UNION {[1..n -> {"a", ".", "/"}] : n \in 0..(MaxLen + 1)}

\* The path is there, as a file or as a directory, or it is not; the empty
\* path never is, the root always is a directory.
InitNew ==
    /\ \E path \in NewPaths : opt = Some(path)
    /\ \E there \in {"file", "dir", "no"} :
           /\ Unwrap(opt) = <<>> => there = "no"
           /\ NormPath(Unwrap(opt)) = <<"/">> => there = "dir"
           /\ fs = [q \in (IF there = "no" THEN {} ELSE {Unwrap(opt)}) |-> there]
    /\ file = None
    /\ panicked = FALSE
    /\ hung = FALSE
    /\ now = 0
    /\ calls = <<>>
    /\ returned = <<>>
    /\ trace = <<>>
    /\ applied = "no"
    /\ selected = <<>>
    /\ results = <<>>
    /\ pc = "idle"
    /\ NoCmp

\* Renamer::new(path)
NewCall ==
    /\ applied = "no"
    /\ results' = <<RenamerNew(Unwrap(opt))>>
    /\ applied' = "new"
    /\ UNCHANGED <<now, renVars, opt, fs, cmpVars, selected, pc>>

\* Renamer::try_from(path)
TryFromCall ==
    /\ applied = "no"
    /\ results' = <<RenamerTryFrom(fs, Unwrap(opt))>>
    /\ applied' = "try_from"
    /\ UNCHANGED <<now, renVars, opt, fs, cmpVars, selected, pc>>

NextNew == NewCall \/ TryFromCall

SpecNew == InitNew /\ [][NextNew]_vars

-----------------------------------------------------------------------------
(* Properties of the other rules, each run on its own                      *)

\* What the rule put behind the original stem.
Appended == SubSeq(file.stem, Len(OriginalStem) + 1, Len(file.stem))

\* C11: with pad 0 the letter formats render every value >= 1 as a non-empty
\* string of letters A-Z (a-z) only, 50 as AX (ax) and 0 as the empty string.
C11_AsciiLetters ==
    ( /\ RuleIs("number")
      /\ Unwrap(opt).o.format \in {"AsciiUpper", "AsciiLower"}
      /\ Unwrap(opt).o.pad = 0
      /\ Unwrap(opt).o.mode.tag = "Suffix" /\ Unwrap(opt).o.sep = <<>> )
    => LET o == Unwrap(opt).o
           upper == o.format = "AsciiUpper"
       IN  /\ ~panicked
           /\ SubSeq(file.stem, 1, Len(OriginalStem)) = OriginalStem
           /\ o.value >= 1 =>
                  /\ Appended /= <<>>
                  /\ \A i \in 1..Len(Appended) :
                         /\ Width(Appended[i]) = 1
                         /\ IF upper THEN IsUpperChar(Appended[i])
                            ELSE IsLowerChar(Appended[i])
           /\ o.value = 50 => Appended = (IF upper THEN <<"A","X">> ELSE <<"a","x">>)
           /\ o.value = 0 => Appended = <<>>

\* C12: the first-N/last-N trim never fails; it leaves the empty stem when
\* first_n + last_n exceeds the length n of the stem and the characters from
\* offset first_n up to n - last_n otherwise: test_file gives "" for (6, 4) and
\* the one character "_" for (4, 4).
C12_FirstLast ==
    ( /\ RuleIs("remove")
      /\ Unwrap(opt).o = [RemoveDefault EXCEPT !.first_n = Unwrap(opt).o.first_n,
                                               !.last_n = Unwrap(opt).o.last_n] )
    => LET o == Unwrap(opt).o
           n == Len(OriginalStem)
       IN  /\ ~panicked
           /\ file.stem = IF o.first_n + o.last_n > n THEN <<>>
                          ELSE SubSeq(OriginalStem, o.first_n + 1, n - o.last_n)
           /\ (OriginalStem = <<"t","e","s","t","_","f","i","l","e">> /\ o.last_n = 4) =>
                  file.stem = (IF o.first_n = 4 THEN <<"_">> ELSE <<>>)

\* The options that enable the k-th step of the documented order as o does
\* and no other step.
C13_Only(o, k) ==
    CASE k = 1 -> [RemoveDefault EXCEPT !.first_n = o.first_n, !.last_n = o.last_n]
      [] k = 2 -> [RemoveDefault EXCEPT !.range = o.range]
      [] k = 3 -> [RemoveDefault EXCEPT !.characters = o.characters]
      [] k = 4 -> [RemoveDefault EXCEPT !.words = o.words]
      [] k = 5 -> [RemoveDefault EXCEPT !.crop = o.crop]
      [] k = 6 -> [RemoveDefault EXCEPT !.digits = o.digits]
      [] k = 7 -> [RemoveDefault EXCEPT !.ascii_high = o.ascii_high]
      [] k = 8 -> [RemoveDefault EXCEPT !.trim = o.trim]
      [] k = 9 -> [RemoveDefault EXCEPT !.chars = o.chars]
      [] k = 10 -> [RemoveDefault EXCEPT !.symbols = o.symbols]
      [] k = 11 -> [RemoveDefault EXCEPT !.lead_dots = o.lead_dots]
      [] k = 12 -> [RemoveDefault EXCEPT !.double_space = o.double_space]

\* The steps k..12 run one after the other, each alone and on what the one
\* before left; a step that panics ends the run.
RECURSIVE C13_Compose(_, _, _)
C13_Compose(k, o, out) ==
    IF k > 12 \/ out.panicked THEN out
    ELSE C13_Compose(k + 1, o, RemoveProcess(C13_Only(o, k), out.file))

C14_Wildcard ==
    (RuleIs("remove") /\ Unwrap(opt).o = [RemoveDefault EXCEPT !.words = <<"[","*","]">>]) =>
        LET left == Find(OriginalStem, <<"[">>)
            right == Find(OriginalStem, <<"]">>)
        IN  /\ ~panicked
            /\ (~IsSome(left) \/ ~IsSome(right)) => file.stem = OriginalStem
            /\ (IsSome(left) /\ IsSome(right) /\ Unwrap(left) < Unwrap(right)) =>
                   file.stem = SubSeq(OriginalStem, 1, Unwrap(left))
                               \o SubSeq(OriginalStem, Unwrap(right) + 2, Len(OriginalStem))
            /\ OriginalStem = <<"H","e","l","l","o","[","A","B","C","]"," ","J","o","e">> =>
                   file.stem = <<"H","e","l","l","o"," ","J","o","e">>

\* C15: with the exceptions "PDF;doc", in every case mode, each occurrence of
\* pdf or doc in the stem, in whatever letter case, reads PDF or doc after
\* process, and an occurrence the stem had is still there.
C15_Exceptions ==
    (RuleIs("case") /\ Unwrap(opt).o.exceptions = <<"P","D","F",";","d","o","c">>) =>
        \A token \in { <<"P","D","F">>, <<"d","o","c">> } :
            /\ \A i \in 1..Len(file.stem) :
                   ToLower(SubSeq(file.stem, i, i + 2)) = ToLower(token)
                       => SubSeq(file.stem, i, i + 2) = token
            /\ (\E i \in 1..Len(OriginalStem) :
                    ToLower(SubSeq(OriginalStem, i, i + 2)) = ToLower(token))
                   => IsSome(Find(file.stem, token))

\* C16: with the extension included and an extension present, the pattern is
\* replaced in stem + "." + extension and the result is split at its last dot;
\* a result without a dot becomes the stem and the extension becomes None.
C16_RegexExtension ==
    (/\ RuleIs("regex")
     /\ Unwrap(opt).o.extension
     /\ IsSome(Original.extension)
     /\ RegexCompiles(Unwrap(opt).o.exp)) =>
        LET res == RegexReplaceFrom(Original.stem \o <<".">> \o Unwrap(Original.extension), 1,
                                    Unwrap(opt).o.exp, Unwrap(opt).o.rep)
        IN  /\ ~panicked
            /\ IF LastDot(res) = 0
               THEN file.stem = res /\ file.extension = None
               ELSE /\ file.stem = SubSeq(res, 1, LastDot(res) - 1)
                    /\ file.extension = Some(SubSeq(res, LastDot(res) + 1, Len(res)))

\* s from character i on with every match of from, found left to right
\* whatever the letter case, replaced by to.
RECURSIVE C18_ReplaceAll(_, _, _, _)
C18_ReplaceAll(s, i, from, to) ==
    IF i > Len(s) THEN <<>>
    ELSE IF /\ i + Len(from) - 1 <= Len(s)
            /\ ToLower(SubSeq(s, i, i + Len(from) - 1)) = ToLower(from)
    THEN to \o C18_ReplaceAll(s, i + Len(from), from, to)
    ELSE <<s[i]>> \o C18_ReplaceAll(s, i + 1, from, to)

\* C18: the case-insensitive Replace returns with every match of the search
\* text, whatever its letter case, replaced by the replacement as written; a
\* stem without a match is unchanged; "12-34-56" with "-" to "_" is "12_34_56".
C18_ReplaceEvery ==
    (RuleIs("replace") /\ ~Unwrap(opt).o.case_sensative /\ Unwrap(opt).o.replace /= <<>>) =>
        /\ ~panicked
        /\ ~hung
        /\ file.stem = C18_ReplaceAll(OriginalStem, 1, Unwrap(opt).o.replace, Unwrap(opt).o.with)
        /\ ~IsSome(Find(ToLower(OriginalStem), ToLower(Unwrap(opt).o.replace)))
               => file.stem = OriginalStem
        /\ ( /\ OriginalStem = <<"1","2","-","3","4","-","5","6">>
             /\ Unwrap(opt).o.replace = <<"-">>
             /\ Unwrap(opt).o.with = <<"_">> )
               => file.stem = <<"1","2","_","3","4","_","5","6">>

\* C19: the Extension rule leaves the stem alone. Keep leaves the extension;
\* Lower, Upper and Title change an extension that exists and create none;
\* New(s) makes it s; Extra(s) makes it old.s, or s where there was none;
\* Remove leaves no extension.
C19_Extension ==
    RuleIs("ext") =>
        LET tag == Unwrap(opt).o.tag
            s == Unwrap(opt).o.text
            old == Original.extension
        IN  /\ ~panicked
            /\ file.stem = Original.stem
            /\ tag = "Keep" => file.extension = old
            /\ tag \in {"Lower", "Upper", "Title"} => (IsSome(file.extension) <=> IsSome(old))
            /\ (tag = "Lower" /\ IsSome(old)) => file.extension = Some(ToLower(Unwrap(old)))
            /\ (tag = "Upper" /\ IsSome(old)) => file.extension = Some(ToUpper(Unwrap(old)))
            /\ tag = "New" => file.extension = Some(s)
            /\ tag = "Extra" =>
                   file.extension = IF IsSome(old) THEN Some(Unwrap(old) \o <<".">> \o s)
                                    ELSE Some(s)
            /\ tag = "Remove" => file.extension = None

\* Extra("x") has made the extension of a.B the two-part B.x.
C19_Witness ==
    /\ RuleIs("ext")
    /\ Unwrap(opt).o = ExtOpt("Extra", <<"x">>)
    /\ file.original = <<"a",".","B">>
    /\ file.stem = <<"a">>
    /\ file.extension = Some(<<"B",".","x">>)

\* The names of the folders above the file, nearest first, as readable names:
\* a verbatim marker in a name is not part of it.
C20_Names ==
    LET names == CompNames(file.original)
    IN  [i \in 1..(Len(names) - 1) |->
            StrReplace(names[Len(names) - i], <<"\\", "\\", "?", "\\">>, <<>>)]

\* c_i s c_(i-1) s ... c_1 s
RECURSIVE C20_Joined(_, _, _)
C20_Joined(c, i, s) == IF i = 0 THEN <<>> ELSE c[i] \o s \o C20_Joined(c, i - 1, s)

C21_Seconds == Strftime(<<"%","S">>, 1, DateOf("Current")).stem

\* C21: with the date type Current and the mode Prefix or Suffix the time of
\* the clock is added to the stem whether or not the metadata of the file can
\* be read; Created and Modified leave the stem as it was when the file
\* system does not supply the time.
C21_CurrentAlwaysAdds ==
    (RuleIs("date") /\ Unwrap(opt).o.fmt.tag = "Custom") =>
        LET o == Unwrap(opt).o
        IN  /\ ~panicked
            /\ (o.date_type = "Current" /\ o.date_mode = "Prefix") =>
                   file.stem = C21_Seconds \o o.sep \o OriginalStem
            /\ (o.date_type = "Current" /\ o.date_mode = "Suffix") =>
                   file.stem = OriginalStem \o o.sep \o C21_Seconds
            /\ (o.date_type /= "Current" /\ ~IsSome(GetDate(o, file.original))) =>
                   file.stem = OriginalStem

\* The Result of the call of Renamer::new or try_from.
C22_Result == results[1]

\* The file name of the path split at its last dot, a dot that leads the name
\* aside: what the Renamer of the path holds.
C22_Made(path, r) ==
    LET name == Unwrap(FileName(path))
    IN  /\ r.original = path
        /\ IF LastDot(name) <= 1
           THEN r.stem = name /\ r.extension = None
           ELSE /\ r.stem = SubSeq(name, 1, LastDot(name) - 1)
                /\ r.extension = Some(SubSeq(name, LastDot(name) + 1, Len(name)))
        /\ \A slot \in Slots : r[slot] = None

\* C22: Renamer::new returns Err(BadStem) exactly for a path without a file
\* stem, the empty path and the root among them; for any other path a Renamer
\* with the path as original, the file name split at its last dot as stem and
\* extension (None without one) and no rule. try_from returns Err(NotFound)
\* for a path that does not exist and otherwise what new returns.
C22_New ==
    applied \in {"new", "try_from"} =>
        LET path == Unwrap(opt)
            missing == applied = "try_from" /\ ~Exists(fs, path)
        IN  /\ missing => (~C22_Result.ok /\ C22_Result.err = "NotFound")
            /\ ~missing =>
                   /\ C22_Result.ok <=> IsSome(FileStem(path))
                   /\ ~C22_Result.ok => C22_Result.err = "BadStem"
                   /\ path \in { <<>>, <<"/">> } => ~C22_Result.ok
                   /\ C22_Result.ok => C22_Made(path, Unwrap(C22_Result.val))

\* Renamer::new split /a.a into the stem "a" and the extension "a".
C22_Witness ==
    /\ applied = "new"
    /\ opt = Some(<<"/","a",".","a">>)
    /\ C22_Result.ok
    /\ Unwrap(C22_Result.val).stem = <<"a">>
    /\ Unwrap(C22_Result.val).extension = Some(<<"a">>)

\* C25: the Replace rule returns for every stem, search and replacement in
\* either mode, also for a replacement that holds the search whatever the
\* letter case and for the empty search of ReplaceOptions::default().
C25_ReplaceReturns ==
    RuleIs("replace") => ~hung

\* C28: the Folder rule returns for every path, mode and number of levels,
\* and leaves the stem as it was for levels = 0, for the mode None and for a
\* file with no folder above it.
C28_FolderReturns ==
    RuleIs("folder") =>
        /\ ~panicked
        /\ ( \/ Unwrap(opt).o.levels = 0
             \/ Unwrap(opt).o.mode = "None"
             \/ Len(CompNames(file.original)) = 1 ) => file.stem = OriginalStem

\* C29: with format, pad width and pad character fixed, "0" for the number
\* bases and "A" or "a" for the letters among them, no other value from 1 on
\* gives the number text this value gave.
C29_DistinctTexts ==
    ( /\ RuleIs("number")
      /\ Unwrap(opt).o.value >= 1
      /\ Unwrap(opt).o.mode.tag = "Suffix"
      /\ Unwrap(opt).o.sep = <<>> ) =>
        \A other \in (1..MaxValue) \ {Unwrap(opt).o.value} :
            NumberValue([Unwrap(opt).o EXCEPT !.value = other]) /= Appended

\* C30: the Number rule returns for every stem and mode, Insert(idx) past
\* the end of the stem included; Prefix gives number sep stem, Suffix stem sep
\* number, and Insert(idx) with idx up to the length puts sep number sep at
\* offset idx and keeps the characters of the stem in their order.
C30_NumberPlaced ==
    RuleIs("number") =>
        LET o == Unwrap(opt).o
            number == NumberValue(o)
        IN  /\ ~panicked
            /\ o.mode.tag = "Prefix" => file.stem = number \o o.sep \o OriginalStem
            /\ o.mode.tag = "Suffix" => file.stem = OriginalStem \o o.sep \o number
            /\ (o.mode.tag = "Insert" /\ o.mode.idx <= Len(OriginalStem)) =>
                   file.stem = SubSeq(OriginalStem, 1, o.mode.idx) \o o.sep \o number \o o.sep
                               \o SubSeq(OriginalStem, o.mode.idx + 1, Len(OriginalStem))

-----------------------------------------------------------------------------
(* Three Renamers compared with cmp                                        *)

\* The entries of the listed directory.
CmpPaths == { <<"a",".","x">>, <<"a",".","y">>, <<"a","x">>, <<"B">>, <<"a">>, <<"é",".","a">> }

InitCmp ==
    /\ fs \in [CmpPaths -> {"file", "dir"}]
    /\ \E pa, pb, pc3 \in CmpPaths :
           models = <<Unwrap(RenamerTryFrom(fs, pa).val),
                      Unwrap(RenamerTryFrom(fs, pb).val),
                      Unwrap(RenamerTryFrom(fs, pc3).val)>>
    /\ ord = None
    /\ file = None
    /\ panicked = FALSE
    /\ hung = FALSE
    /\ now = 0
    /\ calls = <<>>
    /\ returned = <<>>
    /\ trace = <<>>
    /\ opt = None
    /\ applied = "no"
    /\ NoBatch

\* a.cmp(&b) for every pair of the three models
CmpCall ==
    /\ ord = None
    /\ ord' = Some([p \in {<<i, j>> : i, j \in 1..3} |->
                       RenamerCmp(fs, models[p[1]], models[p[2]])])
    /\ UNCHANGED <<now, renVars, opt, applied, fs, models, batchVars>>

NextCmp == CmpCall

SpecCmp == InitCmp /\ [][NextCmp]_vars

-----------------------------------------------------------------------------
(* Properties of Ord for Renamer                                           *)

Reversed(o) == CASE o = "Less" -> "Greater" [] o = "Greater" -> "Less" [] o = "Equal" -> "Equal"
Cmp(i, j) == Unwrap(ord)[<<i, j>>]
ModelIsDir(i) == IsDir(fs, models[i].original)

\* C6: cmp is a valid ordering: cmp(a,b) is the reverse of cmp(b,a), a
\* directory is Less than a non-directory whatever the names, and the relation
\* is transitive.
C6_ValidOrdering ==
    IsSome(ord) =>
        /\ \A i, j \in 1..3 : Cmp(i, j) = Reversed(Cmp(j, i))
        /\ \A i, j \in 1..3 : (ModelIsDir(i) /\ ~ModelIsDir(j)) => Cmp(i, j) = "Less"
        /\ \A i, j, k \in 1..3 :
               (Cmp(i, j) /= "Greater" /\ Cmp(j, k) /= "Greater") => Cmp(i, k) /= "Greater"

\* A directory whose name sorts after the name of a file was compared with it.
C6_Witness ==
    /\ IsSome(ord)
    /\ ModelIsDir(1) /\ ~ModelIsDir(2) /\ ~ModelIsDir(3)
    /\ StrCmp(models[1].stem, models[2].stem) = "Greater"
    /\ Cmp(1, 2) = "Less" /\ Cmp(2, 3) = "Less"

\* The composite name: stem + extension, the stem alone without an extension.
C7_Composite(r) == IF IsSome(r.extension) THEN r.stem \o Unwrap(r.extension) ELSE r.stem

\* C7: two models of the same kind compare as their composite names do.
C7_SameKindByComposite ==
    IsSome(ord) =>
        \A i, j \in 1..3 :
            (ModelIsDir(i) = ModelIsDir(j)) =>
                Cmp(i, j) = StrCmp(C7_Composite(models[i]), C7_Composite(models[j]))

\* C27: cmp returns Equal for two Renamers exactly when they are equal, and
\* they are equal exactly when their original paths are.
C27_EqualIffSame ==
    IsSome(ord) =>
        \A i, j \in 1..3 :
            Cmp(i, j) = "Equal" <=> PathEq(models[i].original, models[j].original)

-----------------------------------------------------------------------------
(* A batch: files are selected, then every Renamer of the batch is renamed *)
(* under the shared configuration                                          *)

MaxBatch == 3

\* The directory the batch is selected from; "d" is an (empty) directory.
BatchFiles ==
    [p \in { <<"a">>, <<"b",".","t">>, <<"é">>, <<"d">> } |->
        IF p = <<"d">> THEN "dir" ELSE "file"]

\* The shared configurations of a batch.
BatchOptions == {
    [kind |-> "add", o |-> AddOpt(Some(<<"x">>), None, None, FALSE)],
    [kind |-> "add", o |-> AddOpt(None, Some([pos |-> 1, text |-> <<"!">>]), None, FALSE)],
    [kind |-> "name", o |-> NameFixed(<<"d","/","n">>)] }

InitBatch ==
    /\ fs = BatchFiles
    /\ \E option \in BatchOptions : opt = Some(option)
    /\ selected = <<>>
    /\ results = <<>>
    /\ pc = "select"
    /\ file = None
    /\ panicked = FALSE
    /\ hung = FALSE
    /\ now = 0
    /\ calls = <<>>
    /\ returned = <<>>
    /\ trace = <<>>
    /\ applied = "no"
    /\ NoCmp

\* Selected::add(file): the Renamer of an existing path joins the batch.
SelectedAdd(path) ==
    /\ pc = "select"
    /\ Len(selected) < MaxBatch
    /\ RenamerTryFrom(fs, path).ok
    /\ selected' = Append(selected, Unwrap(RenamerTryFrom(fs, path).val))
    /\ UNCHANGED <<now, renVars, opt, applied, fs, cmpVars, results, pc>>

\* Another program deletes a file of the directory.
Vanish(path) ==
    /\ pc \in {"select", "commit"}
    /\ Exists(fs, path)
    /\ fs' = [q \in DOMAIN fs \ {path} |-> fs[q]]
    /\ UNCHANGED <<now, renVars, opt, applied, cmpVars, batchVars>>

\* The commit starts: no more selection.
BeginCommit ==
    /\ pc = "select"
    /\ selected /= <<>>
    /\ pc' = "commit"
    /\ UNCHANGED <<now, renVars, opt, applied, fs, cmpVars, selected, results>>

\* The next Renamer of the batch, with the shared rule, as rename sees it.
BatchItem == WithOptionSet(selected[Len(results) + 1], Unwrap(opt).kind, Unwrap(opt).o)

\* results.push(out) for the outcome out of the item's rename.  A panic of
\* rename unwinds through the loop: the commit is over.  A rename that never
\* returns leaves the commit where it is for good.
CommitPush(out) ==
    IF out.panicked \/ out.hung
    THEN /\ pc' = IF out.panicked THEN "aborted" ELSE "hung"
         /\ UNCHANGED <<results, fs>>
    ELSE /\ results' = Append(results,
                           [result |-> out.result,
                            source_there |-> Exists(fs, BatchItem.original),
                            fs_refused |-> FsRenameFails(fs, BatchItem.original, out.to),
                            moved |-> Exists(out.fs, NormPath(out.to))])
         /\ fs' = out.fs
         /\ pc' = IF Len(results) + 1 = Len(selected) THEN "done" ELSE "commit"

\* One turn of the commit loop: results.push(renamer.rename()).
CommitItem ==
    /\ pc = "commit"
    /\ CommitPush(Rename(BatchItem, fs))
    /\ UNCHANGED <<now, renVars, opt, applied, cmpVars, selected>>

NextBatch ==
    \/ \E path \in DOMAIN BatchFiles : SelectedAdd(path)
    \/ \E path \in DOMAIN BatchFiles : Vanish(path)
    \/ BeginCommit
    \/ CommitItem

SpecBatch == InitBatch /\ [][NextBatch]_vars

-----------------------------------------------------------------------------
(* Properties of the batch commit                                          *)

BatchResultsPerItem ==
    /\ pc = "done" => Len(results) = Len(selected)
    /\ \A i \in 1..Len(results) :
           IF ~results[i].source_there \/ results[i].fs_refused
           THEN results[i].result = "Err"
           ELSE results[i].result = "Ok" /\ results[i].moved

====
